---- MODULE Spec2Model ----
(***************************************************************************)
(* A model of the renderer of LearnVulkanInCLibrary: the frame loop of     *)
(* GameApp::run, VulkanRenderer::drawFrame with its fences and semaphores, *)
(* recreateSwapChain / cleanupSwapChain, and cleanup.  The host thread is  *)
(* one sequential process whose position is pc; the GPU (graphics queue)   *)
(* and the presentation engine (present queue) run beside it.              *)
(***************************************************************************)
EXTENDS Integers, Sequences, FiniteSets, TLC

\* Largest image count a surface reports in this model.
MaxImageCount == 2

\* std::numeric_limits<uint32_t>::max(), the "undefined" current extent.  TLC's
\* integers are 32-bit signed, so the largest of them stands for 0xFFFFFFFF; the
\* renderer only compares a width with it.
UINT32_MAX == 2147483647

VARIABLES
    pc,                          \* position of the host thread
    rcReturn,                    \* where recreateSwapChain() returns to
    trace,                       \* backend calls made by the current render() call, in order
    framesCompleted,             \* render() calls that ran to the end of drawFrame, mod N
    m_isRunning,                 \* GameApp
    m_isMinimized,               \* GameApp
    m_renderer,                  \* GameApp: the unique_ptr holds a renderer
    helper,                      \* a helper function called on its own: [fn, arg, ret]
    m_initialized,
    m_currentFrame,
    m_framebufferResized,
    result,                      \* drawFrame's local VkResult
    imageIndex,                  \* drawFrame's local imageIndex
    m_commandBuffers,            \* slot -> the command buffer allocated for it
    m_inFlightFences,            \* slot -> signaled
    m_imageAvailableSemaphores,  \* slot -> signaled
    m_renderFinishedSemaphores,  \* slot -> signaled
    m_swapChain,                 \* [live]
    m_swapChainImages,           \* [n, valid]: n handles; valid: to the images of the live chain
    m_swapChainImageFormat,
    m_swapChainExtent,
    m_swapChainImageViews,       \* [n, live, onImages]: onImages: made from the live chain's images
    m_swapChainFramebuffers,     \* [n, live, onViews, extent]: onViews: made from the live views
    handles,                     \* the long-lived objects: member -> [id, live]
    image,                       \* presentation engine: image -> [st, sem]: who owns the
                                 \* image, and the semaphore its release will signal
    graphicsQueue,               \* submissions not yet completed: [cb, fb, wait, signal, fence]
    presentQueue                 \* present requests whose semaphore wait is outstanding

vars == << pc, rcReturn, trace, framesCompleted, m_isRunning, m_isMinimized, m_renderer,
           helper, m_initialized,
           m_currentFrame, m_framebufferResized, result, imageIndex,
           m_commandBuffers, m_inFlightFences, m_imageAvailableSemaphores,
           m_renderFinishedSemaphores, m_swapChain, m_swapChainImages,
           m_swapChainImageFormat, m_swapChainExtent, m_swapChainImageViews,
           m_swapChainFramebuffers, handles, image, graphicsQueue, presentQueue >>

hostVars == << m_isRunning, m_isMinimized, framesCompleted, m_renderer, helper >>
frameVars == << m_currentFrame, m_framebufferResized, result, imageIndex >>
syncVars == << m_commandBuffers, m_inFlightFences, m_imageAvailableSemaphores,
               m_renderFinishedSemaphores >>
chainVars == << m_swapChain, m_swapChainImages, m_swapChainImageFormat,
                m_swapChainExtent, m_swapChainImageViews, m_swapChainFramebuffers >>
deviceVars == << image, graphicsQueue, presentQueue >>

----------------------------------------------------------------------------
(* Values of the backend.                                                  *)

VK_SUCCESS == "VK_SUCCESS"
VK_SUBOPTIMAL_KHR == "VK_SUBOPTIMAL_KHR"
VK_ERROR_OUT_OF_DATE_KHR == "VK_ERROR_OUT_OF_DATE_KHR"
\* Stands for every result that is neither a success nor a stale-chain signal.
VK_ERROR_OUT_OF_HOST_MEMORY == "VK_ERROR_OUT_OF_HOST_MEMORY"

AcquireResults == {VK_SUCCESS, VK_SUBOPTIMAL_KHR, VK_ERROR_OUT_OF_DATE_KHR,
                   VK_ERROR_OUT_OF_HOST_MEMORY}
SubmitResults == {VK_SUCCESS, VK_ERROR_OUT_OF_HOST_MEMORY}
PresentResults == {VK_SUCCESS, VK_SUBOPTIMAL_KHR, VK_ERROR_OUT_OF_DATE_KHR,
                   VK_ERROR_OUT_OF_HOST_MEMORY}
CreateResults == {VK_SUCCESS, VK_ERROR_OUT_OF_HOST_MEMORY}

VK_FORMAT_B8G8R8A8_SRGB == "VK_FORMAT_B8G8R8A8_SRGB"
VK_FORMAT_R8G8B8A8_UNORM == "VK_FORMAT_R8G8B8A8_UNORM"
VK_COLOR_SPACE_SRGB_NONLINEAR_KHR == "VK_COLOR_SPACE_SRGB_NONLINEAR_KHR"

Extents == { <<800, 600>>, <<1000, 600>> }

\* What querySwapChainSupport() can report for the surface.
SurfaceFormatLists ==
    { << [format |-> VK_FORMAT_B8G8R8A8_SRGB, colorSpace |-> VK_COLOR_SPACE_SRGB_NONLINEAR_KHR] >>,
      << [format |-> VK_FORMAT_R8G8B8A8_UNORM, colorSpace |-> VK_COLOR_SPACE_SRGB_NONLINEAR_KHR],
         [format |-> VK_FORMAT_B8G8R8A8_SRGB, colorSpace |-> VK_COLOR_SPACE_SRGB_NONLINEAR_KHR] >> }

SurfaceCapabilities ==
    { c \in [ minImageCount : 1..MaxImageCount,
              maxImageCount : 0..MaxImageCount,
              currentExtent : Extents \cup { <<UINT32_MAX, UINT32_MAX>> },
              minImageExtent : { <<1, 1>> },
              maxImageExtent : { <<4096, 4096>> } ] :
        /\ c.maxImageCount = 0 \/ c.minImageCount <= c.maxImageCount
        /\ c.maxImageCount = 0 => c.minImageCount < MaxImageCount }

NoImage == 0 - 1

----------------------------------------------------------------------------
(* Pure functions of the renderer.                                         *)

\* Fault variant of chooseSwapSurfaceFormat: only the format is compared.
chooseSwapSurfaceFormat_IgnoresColorSpace(availableFormats) ==
    LET hits == { i \in 1..Len(availableFormats) :
                    availableFormats[i].format = VK_FORMAT_B8G8R8A8_SRGB }
    IN  IF hits # {}
        THEN availableFormats[CHOOSE i \in hits : \A j \in hits : i <= j]
        ELSE availableFormats[1]

chooseSwapSurfaceFormat(availableFormats) ==
    LET hits == { i \in 1..Len(availableFormats) :
                    /\ availableFormats[i].format = VK_FORMAT_B8G8R8A8_SRGB
                    /\ availableFormats[i].colorSpace = VK_COLOR_SPACE_SRGB_NONLINEAR_KHR }
    IN  IF hits # {}
        THEN availableFormats[CHOOSE i \in hits : \A j \in hits : i <= j]
        ELSE availableFormats[1]

\* Fault variant of clamp: only the upper bound is applied.
clamp_UpperOnly(v, lo, hi) == IF hi < v THEN hi ELSE v

clamp(v, lo, hi) == IF v < lo THEN lo ELSE IF hi < v THEN hi ELSE v

chooseSwapExtent(capabilities, windowPixels) ==
    IF capabilities.currentExtent[1] # UINT32_MAX
    THEN capabilities.currentExtent
    ELSE << clamp(windowPixels[1], capabilities.minImageExtent[1], capabilities.maxImageExtent[1]),
            clamp(windowPixels[2], capabilities.minImageExtent[2], capabilities.maxImageExtent[2]) >>

\* uint32_t addition of 1: the largest value wraps to 0.
uint32_inc(v) == IF v = UINT32_MAX THEN 0 ELSE v + 1

\* createSwapChain's imageCount.
swapChainImageCount(capabilities) ==
    LET imageCount == uint32_inc(capabilities.minImageCount)
    IN  IF capabilities.maxImageCount > 0 /\ imageCount > capabilities.maxImageCount
        THEN capabilities.maxImageCount
        ELSE imageCount

\* recordCommandBuffer()'s targetAspectRatio 4.0f / 3.0f, as numerator and
\* denominator.
targetAspectRatio == << 4, 3 >>

\* Viewport coordinates are floats; the model keeps them exactly, counted
\* in this many parts of a pixel, which makes every product, quotient and
\* halving below come out whole.
PerPixel == 2 * targetAspectRatio[1] * targetAspectRatio[2]

\* A viewport that fills the extent, whatever its shape.
viewport_Stretched(extent) ==
    [ x |-> 0, y |-> 0, width |-> extent[1] * PerPixel, height |-> extent[2] * PerPixel ]

\* The viewport recordCommandBuffer() sets for the swap chain extent:
\* width and height start as the extent's; the side that is too long for
\* the target ratio is cut, and the rest is split evenly on both sides.
viewport(extent) ==
    LET w == extent[1] * PerPixel
        h == extent[2] * PerPixel
        \* width / height > targetAspectRatio, for height > 0
        wider == w * targetAspectRatio[2] > h * targetAspectRatio[1]
        width == IF wider THEN (h * targetAspectRatio[1]) \div targetAspectRatio[2] ELSE w
        height == IF wider THEN h ELSE (w * targetAspectRatio[2]) \div targetAspectRatio[1]
    IN  [ x |-> (w - width) \div 2, y |-> (h - height) \div 2,
          width |-> width, height |-> height ]

\* The scissor rectangle recordCommandBuffer() sets: the whole extent.
scissor(extent) == [ offset |-> << 0, 0 >>, extent |-> extent ]

----------------------------------------------------------------------------
(* Physical device selection.                                              *)

MaxDevices == 3
MaxQueueFamilies == 2
MaxFormats == 3

VK_NULL_HANDLE == 0
VK_KHR_SWAPCHAIN_EXTENSION_NAME == "VK_KHR_swapchain"
VK_PRESENT_MODE_FIFO_KHR == "VK_PRESENT_MODE_FIFO_KHR"
VK_COLOR_SPACE_DISPLAY_P3_NONLINEAR_EXT == "VK_COLOR_SPACE_DISPLAY_P3_NONLINEAR_EXT"

\* The device extensions the renderer requires.
deviceExtensions == { VK_KHR_SWAPCHAIN_EXTENSION_NAME }

\* Sequences over S of length lo..hi.
SeqsOf(S, lo, hi) == UNION { [1..n -> S] : n \in lo..hi }

\* What the queries report for a physical device: its queue families (graphics
\* bit, present support for the surface), its extensions, and the surface's
\* formats and present modes on it.
QueueFamilyProperties == [ graphics : BOOLEAN, present : BOOLEAN ]

PhysicalDevices ==
    [ queueFamilies : SeqsOf(QueueFamilyProperties, 0, MaxQueueFamilies),
      extensions : SUBSET { VK_KHR_SWAPCHAIN_EXTENSION_NAME, "VK_KHR_maintenance1" },
      formats : { << >> } \cup SurfaceFormatLists,
      presentModes : { << >>, << VK_PRESENT_MODE_FIFO_KHR >> } ]

\* What vkEnumeratePhysicalDevices can report: up to MaxDevices devices, each
\* one suitable or lacking the present queue, the extension or the present modes.
DeviceLists ==
    SeqsOf({ d \in PhysicalDevices :
               /\ d.queueFamilies \in { << [graphics |-> TRUE, present |-> TRUE] >>,
                                        << [graphics |-> TRUE, present |-> FALSE] >> }
               /\ d.extensions \in { {}, deviceExtensions }
               /\ Len(d.formats) = 1 },
           0, MaxDevices)

\* The (format, color space) pairs a surface can support, and the lists
\* vkGetPhysicalDeviceSurfaceFormatsKHR can report.
SurfaceFormats ==
    [ format : { VK_FORMAT_B8G8R8A8_SRGB, VK_FORMAT_R8G8B8A8_UNORM },
      colorSpace : { VK_COLOR_SPACE_SRGB_NONLINEAR_KHR,
                     VK_COLOR_SPACE_DISPLAY_P3_NONLINEAR_EXT } ]

AvailableFormats == SeqsOf(SurfaceFormats, 1, MaxFormats)

\* std::optional<uint32_t>: empty, or one value.
nullopt == << >>
has_value(o) == o # nullopt

\* QueueFamilyIndices::isComplete
isComplete(indices) == has_value(indices.graphicsFamily) /\ has_value(indices.presentFamily)

\* The loop of findQueueFamilies from family i on (i counts from 0): a family
\* with the graphics bit sets graphicsFamily, one that can present sets
\* presentFamily, and the loop breaks once both are set.
RECURSIVE findQueueFamilies_loop(_, _, _)
findQueueFamilies_loop(queueFamilies, i, indices) ==
    IF i >= Len(queueFamilies) THEN indices
    ELSE LET queueFamily == queueFamilies[i + 1]
             g == IF queueFamily.graphics
                  THEN [indices EXCEPT !.graphicsFamily = << i >>] ELSE indices
             p == IF queueFamily.present
                  THEN [g EXCEPT !.presentFamily = << i >>] ELSE g
         IN  IF isComplete(p) THEN p
             ELSE findQueueFamilies_loop(queueFamilies, i + 1, p)

findQueueFamilies(device) ==
    findQueueFamilies_loop(device.queueFamilies, 0,
                           [graphicsFamily |-> nullopt, presentFamily |-> nullopt])

\* Iteration over a std::set<uint32_t>: its elements in ascending order.
RECURSIVE Ascending(_)
Ascending(S) ==
    IF S = {} THEN << >>
    ELSE LET least == CHOOSE x \in S : \A y \in S : x <= y
         IN  << least >> \o Ascending(S \ { least })

\* Fault variant of queueCreateInfos: one entry per role, graphics then
\* present, whether or not the two families are the same.
queueCreateInfos_PerRole(indices) ==
    << [queueFamilyIndex |-> indices.graphicsFamily[1], queueCount |-> 1],
       [queueFamilyIndex |-> indices.presentFamily[1], queueCount |-> 1] >>

\* createLogicalDevice's queueCreateInfos: one VkDeviceQueueCreateInfo with
\* queueCount 1 for every element of the set uniqueQueueFamilies =
\* { graphicsFamily.value(), presentFamily.value() }.
queueCreateInfos(indices) ==
    LET uniqueQueueFamilies == { indices.graphicsFamily[1], indices.presentFamily[1] }
        order == Ascending(uniqueQueueFamilies)
    IN  [ k \in 1..Len(order) |-> [queueFamilyIndex |-> order[k], queueCount |-> 1] ]

VK_SHARING_MODE_EXCLUSIVE == "VK_SHARING_MODE_EXCLUSIVE"
VK_SHARING_MODE_CONCURRENT == "VK_SHARING_MODE_CONCURRENT"

\* createSwapChain's createInfo.imageSharingMode.
imageSharingMode(indices) ==
    IF indices.graphicsFamily # indices.presentFamily
    THEN VK_SHARING_MODE_CONCURRENT
    ELSE VK_SHARING_MODE_EXCLUSIVE

\* Every required extension is erased by one of the device's extensions.
checkDeviceExtensionSupport(device) == deviceExtensions \ device.extensions = {}

querySwapChainSupport(device) ==
    [formats |-> device.formats, presentModes |-> device.presentModes]

\* Fault variant of isDeviceSuitable: the present modes are not looked at.
isDeviceSuitable_IgnoresPresentModes(device) ==
    LET indices == findQueueFamilies(device)
        extensionsSupported == checkDeviceExtensionSupport(device)
        swapChainAdequate ==
            IF extensionsSupported
            THEN querySwapChainSupport(device).formats # << >>
            ELSE FALSE
    IN  isComplete(indices) /\ extensionsSupported /\ swapChainAdequate

isDeviceSuitable(device) ==
    LET indices == findQueueFamilies(device)
        extensionsSupported == checkDeviceExtensionSupport(device)
        swapChainAdequate ==
            IF extensionsSupported
            THEN LET swapChainSupport == querySwapChainSupport(device)
                 IN  swapChainSupport.formats # << >> /\ swapChainSupport.presentModes # << >>
            ELSE FALSE
    IN  isComplete(indices) /\ extensionsSupported /\ swapChainAdequate

\* The loop of pickPhysicalDevice from device k on: the handle of the first
\* suitable device (a device's handle is its place in the enumeration), or
\* m_physicalDevice's initial VK_NULL_HANDLE.
RECURSIVE pickPhysicalDevice_loop(_, _)
pickPhysicalDevice_loop(devices, k) ==
    IF k > Len(devices) THEN VK_NULL_HANDLE
    ELSE IF isDeviceSuitable(devices[k]) THEN k
    ELSE pickPhysicalDevice_loop(devices, k + 1)

\* Fault variant of pickPhysicalDevice: the loop has no break, the last
\* suitable device is selected.
pickPhysicalDevice_NoBreak(devices) ==
    LET suitable == { k \in 1..Len(devices) : isDeviceSuitable(devices[k]) }
        device == IF suitable = {} THEN VK_NULL_HANDLE
                  ELSE CHOOSE k \in suitable : \A j \in suitable : j <= k
    IN  [threw |-> device = VK_NULL_HANDLE, m_physicalDevice |-> device]

\* pickPhysicalDevice: what it leaves in m_physicalDevice, and whether it threw
\* (no device at all, or none suitable).
pickPhysicalDevice(devices) ==
    IF Len(devices) = 0
    THEN [threw |-> TRUE, m_physicalDevice |-> VK_NULL_HANDLE]
    ELSE LET device == pickPhysicalDevice_loop(devices, 1)
         IN  [threw |-> device = VK_NULL_HANDLE, m_physicalDevice |-> device]

----------------------------------------------------------------------------
(* Present mode.                                                           *)

MaxPresentModes == 3

VK_PRESENT_MODE_MAILBOX_KHR == "VK_PRESENT_MODE_MAILBOX_KHR"
VK_PRESENT_MODE_IMMEDIATE_KHR == "VK_PRESENT_MODE_IMMEDIATE_KHR"

\* What vkGetPhysicalDeviceSurfacePresentModesKHR can report.
AvailablePresentModes ==
    SeqsOf({ VK_PRESENT_MODE_FIFO_KHR, VK_PRESENT_MODE_MAILBOX_KHR,
             VK_PRESENT_MODE_IMMEDIATE_KHR }, 0, MaxPresentModes)

\* Fault variant of chooseSwapPresentMode: without mailbox the first reported
\* mode is returned (FIFO only for an empty list).
chooseSwapPresentMode_FirstElse(availablePresentModes) ==
    IF \E i \in 1..Len(availablePresentModes) :
           availablePresentModes[i] = VK_PRESENT_MODE_MAILBOX_KHR
    THEN VK_PRESENT_MODE_MAILBOX_KHR
    ELSE IF availablePresentModes = << >> THEN VK_PRESENT_MODE_FIFO_KHR
    ELSE availablePresentModes[1]

\* The loop returns the first element that is mailbox; after the loop FIFO.
chooseSwapPresentMode(availablePresentModes) ==
    LET hits == { i \in 1..Len(availablePresentModes) :
                    availablePresentModes[i] = VK_PRESENT_MODE_MAILBOX_KHR }
    IN  IF hits # {}
        THEN availablePresentModes[CHOOSE i \in hits : \A j \in hits : i <= j]
        ELSE VK_PRESENT_MODE_FIFO_KHR

----------------------------------------------------------------------------
(* Helpers.                                                                *)

FrameSlots == DOMAIN m_commandBuffers
NumSlots == Cardinality(FrameSlots)

Log(calls) == trace' = trace \o calls

\* Fault variant of LoopNext: the loop goes on whatever m_isRunning.
LoopNext_IgnoresQuit == "poll"

\* The host loop's next position after render() returned (or was skipped):
\* `while (m_isRunning)` in GameApp::run.
LoopNext == IF m_isRunning THEN "poll" ELSE "close"

\* drawFrame() returns: its locals are gone.
Return ==
    /\ pc' = LoopNext
    /\ trace' = << >>
    /\ result' = VK_SUCCESS
    /\ imageIndex' = NoImage

Pending(slot) == \E w \in graphicsQueue : w.cb = slot

\* Fault variant of DeviceIdle: the idle-wait returns at once.
DeviceIdle_NoWait == TRUE

\* vkDeviceWaitIdle returns once every queue of the device is idle.
DeviceIdle == graphicsQueue = {} /\ presentQueue = << >>

NewImages(n) == [ k \in 0..(n - 1) |-> [st |-> "peOwned", sem |-> NoImage] ]

\* No helper function is being called on its own.
NoCall == [fn |-> "none"]

\* The members that hold objects made once by initVulkan(); for the three
\* vectors of sync objects the entry says whether the objects exist, for
\* m_physicalDevice whether a device has been selected (the handle is not
\* VK_NULL_HANDLE; which device it is does not matter to the renderer).
LongLived == { "m_instance", "m_debugMessenger", "m_surface", "m_physicalDevice", "m_device",
               "m_renderPass", "m_pipelineLayout", "m_graphicsPipeline",
               "m_commandPool", "m_imageAvailableSemaphores",
               "m_renderFinishedSemaphores", "m_inFlightFences" }

----------------------------------------------------------------------------
(* The state after GameApp::init() succeeded: initVulkan() has run all its *)
(* stages, m_initialized and m_isRunning are true.                         *)

Init ==
    \E caps \in SurfaceCapabilities, formats \in SurfaceFormatLists, window \in Extents :
        LET n == swapChainImageCount(caps)
            extent == chooseSwapExtent(caps, window)
        IN  /\ n <= MaxImageCount
            /\ pc = "poll"
            /\ rcReturn = "none"
            /\ trace = << >>
            /\ framesCompleted = 0
            /\ m_isRunning = TRUE
            /\ m_isMinimized = FALSE
            /\ m_renderer = TRUE
            /\ helper = NoCall
            /\ m_initialized = TRUE
            /\ m_currentFrame = 0
            /\ m_framebufferResized = FALSE
            /\ result = VK_SUCCESS
            /\ imageIndex = NoImage
            /\ m_commandBuffers = [ s \in 0..(n - 1) |-> "allocated" ]
            /\ m_inFlightFences = [ s \in 0..(n - 1) |-> TRUE ]
            /\ m_imageAvailableSemaphores = [ s \in 0..(n - 1) |-> FALSE ]
            /\ m_renderFinishedSemaphores = [ s \in 0..(n - 1) |-> FALSE ]
            /\ m_swapChain = [live |-> TRUE]
            /\ m_swapChainImages = [n |-> n, valid |-> TRUE]
            /\ m_swapChainImageFormat = chooseSwapSurfaceFormat(formats).format
            /\ m_swapChainExtent = extent
            /\ m_swapChainImageViews = [n |-> n, live |-> TRUE, onImages |-> TRUE]
            /\ m_swapChainFramebuffers = [n |-> n, live |-> TRUE, onViews |-> TRUE,
                                          extent |-> extent]
            /\ handles = [ h \in LongLived |-> [id |-> 1, live |-> TRUE] ]
            /\ image = NewImages(n)
            /\ graphicsQueue = {}
            /\ presentQueue = << >>

----------------------------------------------------------------------------
(* GameApp: the host loop.                                                 *)

SDL_EVENT_QUIT == "SDL_EVENT_QUIT"
SDL_EVENT_WINDOW_RESIZED == "SDL_EVENT_WINDOW_RESIZED"
SDL_EVENT_WINDOW_MINIMIZED == "SDL_EVENT_WINDOW_MINIMIZED"
SDL_EVENT_WINDOW_RESTORED == "SDL_EVENT_WINDOW_RESTORED"
Events == { SDL_EVENT_QUIT, SDL_EVENT_WINDOW_RESIZED,
            SDL_EVENT_WINDOW_MINIMIZED, SDL_EVENT_WINDOW_RESTORED }

\* VulkanRenderer::setFramebufferResized
setFramebufferResized(resized) == m_framebufferResized' = resized

\* Fault variant of handleEvents: no event is taken while the window is
\* minimized.
handleEvents_DeafWhileMinimized(event) ==
    /\ pc = "poll"
    /\ ~m_isMinimized
    /\ CASE event = SDL_EVENT_QUIT ->
              /\ m_isRunning' = FALSE
              /\ UNCHANGED << m_isMinimized, m_framebufferResized >>
         [] event = SDL_EVENT_WINDOW_RESIZED ->
              /\ setFramebufferResized(TRUE)
              /\ UNCHANGED << m_isRunning, m_isMinimized >>
         [] event = SDL_EVENT_WINDOW_MINIMIZED ->
              /\ m_isMinimized' = TRUE
              /\ UNCHANGED << m_isRunning, m_framebufferResized >>
         [] event = SDL_EVENT_WINDOW_RESTORED ->
              /\ m_isMinimized' = FALSE
              /\ UNCHANGED << m_isRunning, m_framebufferResized >>
    /\ UNCHANGED << pc, rcReturn, trace, framesCompleted, m_renderer, helper,
                    m_initialized, m_currentFrame, result, imageIndex, syncVars,
                    chainVars, handles, deviceVars >>

\* One event polled by GameApp::handleEvents.
handleEvents(event) ==
    /\ pc = "poll"
    /\ CASE event = SDL_EVENT_QUIT ->
              /\ m_isRunning' = FALSE
              /\ UNCHANGED << m_isMinimized, m_framebufferResized >>
         [] event = SDL_EVENT_WINDOW_RESIZED ->
              /\ setFramebufferResized(TRUE)
              /\ UNCHANGED << m_isRunning, m_isMinimized >>
         [] event = SDL_EVENT_WINDOW_MINIMIZED ->
              /\ m_isMinimized' = TRUE
              /\ UNCHANGED << m_isRunning, m_framebufferResized >>
         [] event = SDL_EVENT_WINDOW_RESTORED ->
              /\ m_isMinimized' = FALSE
              /\ UNCHANGED << m_isRunning, m_framebufferResized >>
    /\ UNCHANGED << pc, rcReturn, trace, framesCompleted, m_renderer, helper,
                    m_initialized, m_currentFrame, result, imageIndex, syncVars,
                    chainVars, handles, deviceVars >>

\* Fault variant of run_render: render() is called whether or not the window
\* is minimized.
run_render_IgnoresMinimized ==
    /\ pc = "poll"
    /\ pc' = "vkWaitForFences"
    /\ UNCHANGED << rcReturn, trace, hostVars, m_initialized, frameVars, syncVars,
                    chainVars, handles, deviceVars >>

\* SDL_PollEvent returned false: the rest of the loop body of GameApp::run,
\* `if (!m_isMinimized) { update(); render(); }`.  GameApp::render calls through
\* m_renderer: on an empty pointer the call is undefined, it may go on or end
\* the process.
run_render ==
    /\ pc = "poll"
    /\ IF ~m_isMinimized
       THEN IF m_renderer THEN pc' = "vkWaitForFences"
            ELSE pc' \in { "vkWaitForFences", "crashed" }
       ELSE pc' = LoopNext
    /\ UNCHANGED << rcReturn, trace, hostVars, m_initialized, frameVars, syncVars,
                    chainVars, handles, deviceVars >>

\* render() has returned to GameApp::run, which tests `while (m_isRunning)`.
\* The call ran to the end of drawFrame unless it was the early `return` of the
\* out-of-date acquire.
run_loop ==
    /\ pc = "return"
    /\ Return
    /\ rcReturn' = "none"
    /\ framesCompleted' = IF rcReturn = "return" THEN framesCompleted
                          ELSE (framesCompleted + 1) % NumSlots
    /\ UNCHANGED << m_isRunning, m_isMinimized, m_renderer, helper, m_initialized,
                    m_currentFrame,
                    m_framebufferResized, syncVars, chainVars, handles, deviceVars >>

----------------------------------------------------------------------------
(* VulkanRenderer::drawFrame.                                              *)

\* Fault variant of FenceWait: the wait returns at once, whatever the fence's state.
FenceWait_NoWait(fence) == TRUE

\* vkWaitForFences(fence, UINT64_MAX) returns once the fence is signaled.
FenceWait(fence) == m_inFlightFences[fence]

\* Fault variant of drawFrame_waitForFences: the fence is reset right after
\* the wait, before the acquire.
drawFrame_waitForFences_ResetsFence ==
    /\ pc = "vkWaitForFences"
    /\ FenceWait(m_currentFrame)
    /\ m_inFlightFences' = [m_inFlightFences EXCEPT ![m_currentFrame] = FALSE]
    /\ pc' = "vkAcquireNextImageKHR"
    /\ Log(<< "vkWaitForFences" >>)
    /\ UNCHANGED << rcReturn, hostVars, m_initialized, frameVars, m_commandBuffers,
                    m_imageAvailableSemaphores, m_renderFinishedSemaphores,
                    chainVars, handles, deviceVars >>

\* vkWaitForFences(m_inFlightFences[m_currentFrame], UINT64_MAX) returns once
\* the slot's fence is signaled.
drawFrame_waitForFences ==
    /\ pc = "vkWaitForFences"
    /\ FenceWait(m_currentFrame)
    /\ pc' = "vkAcquireNextImageKHR"
    /\ Log(<< "vkWaitForFences" >>)
    /\ UNCHANGED << rcReturn, hostVars, m_initialized, frameVars, syncVars,
                    chainVars, handles, deviceVars >>

\* Fault variant of drawFrame_acquireOutOfDate: the branch resets the slot's
\* fence before it recreates and returns.
drawFrame_acquireOutOfDate_ResetsFence ==
    /\ pc' = "vkDeviceWaitIdle"
    /\ rcReturn' = "return"
    /\ m_inFlightFences' = [m_inFlightFences EXCEPT ![m_currentFrame] = FALSE]
    /\ UNCHANGED << m_currentFrame, m_framebufferResized, imageIndex, m_commandBuffers,
                    m_imageAvailableSemaphores, m_renderFinishedSemaphores, image >>

\* Fault variant of drawFrame_acquireOutOfDate: the aborted frame still moves on
\* to the next slot.
drawFrame_acquireOutOfDate_Advances ==
    /\ pc' = "vkDeviceWaitIdle"
    /\ rcReturn' = "return"
    /\ m_currentFrame' = (m_currentFrame + 1) % Cardinality(DOMAIN m_commandBuffers)
    /\ UNCHANGED << m_framebufferResized, imageIndex, syncVars, image >>

\* Fault variant of drawFrame_acquireOutOfDate: the branch takes the pending
\* resize notification as handled by its recreation.
drawFrame_acquireOutOfDate_ClearsFlag ==
    /\ pc' = "vkDeviceWaitIdle"
    /\ rcReturn' = "return"
    /\ m_framebufferResized' = FALSE
    /\ UNCHANGED << m_currentFrame, imageIndex, syncVars, image >>

\* The branch `result == VK_ERROR_OUT_OF_DATE_KHR`: recreateSwapChain(); return.
drawFrame_acquireOutOfDate ==
    /\ pc' = "vkDeviceWaitIdle"
    /\ rcReturn' = "return"
    /\ UNCHANGED << m_currentFrame, m_framebufferResized, imageIndex, syncVars, image >>

\* vkAcquireNextImageKHR(m_swapChain, UINT64_MAX, m_imageAvailableSemaphores[m_currentFrame]).
\* With a success result it hands out an image the presentation engine owns;
\* the semaphore is signaled later, when the engine has released the image.
drawFrame_acquire ==
    /\ pc = "vkAcquireNextImageKHR"
    /\ \E res \in AcquireResults :
        /\ result' = res
        /\ Log(<< "vkAcquireNextImageKHR" >>)
        /\ IF res = VK_ERROR_OUT_OF_DATE_KHR
           THEN drawFrame_acquireOutOfDate
           ELSE IF res # VK_SUCCESS /\ res # VK_SUBOPTIMAL_KHR
           THEN /\ pc' = "fatal"
                /\ UNCHANGED << rcReturn, m_currentFrame, m_framebufferResized,
                                imageIndex, syncVars, image >>
           ELSE \E k \in DOMAIN image :
                /\ image[k].st = "peOwned"
                /\ imageIndex' = k
                /\ image' = [image EXCEPT ![k] = [st |-> "acquired", sem |-> m_currentFrame]]
                /\ pc' = "vkResetFences"
                /\ UNCHANGED << rcReturn, m_currentFrame, m_framebufferResized, syncVars >>
    /\ UNCHANGED << hostVars, m_initialized, chainVars, handles,
                    graphicsQueue, presentQueue >>

\* vkResetFences, vkResetCommandBuffer, recordCommandBuffer(m_commandBuffers[m_currentFrame], imageIndex);
\* vkBeginCommandBuffer / vkEndCommandBuffer may fail, which throws.
drawFrame_record ==
    /\ pc = "vkResetFences"
    /\ m_inFlightFences' = [m_inFlightFences EXCEPT ![m_currentFrame] = FALSE]
    /\ \E res \in CreateResults :
         pc' = IF res = VK_SUCCESS THEN "vkQueueSubmit" ELSE "fatal"
    /\ Log(<< "vkResetFences", "vkResetCommandBuffer", "recordCommandBuffer" >>)
    /\ UNCHANGED << rcReturn, hostVars, m_initialized, frameVars, m_commandBuffers,
                    m_imageAvailableSemaphores, m_renderFinishedSemaphores,
                    chainVars, handles, deviceVars >>

\* Fault variant of submitInfo: every submission waits on the first
\* image-available semaphore instead of its own slot's.
submitInfo_WaitsOnFirstSemaphore ==
    [ cb |-> m_currentFrame,
      fb |-> imageIndex,
      wait |-> 0,
      signal |-> m_currentFrame,
      fence |-> m_currentFrame ]

\* The VkSubmitInfo drawFrame builds for slot m_currentFrame; fb is the
\* framebuffer recordCommandBuffer put into the command buffer.
submitInfo ==
    [ cb |-> m_currentFrame,
      fb |-> imageIndex,
      wait |-> m_currentFrame,       \* m_imageAvailableSemaphores[m_currentFrame]
      signal |-> m_currentFrame,     \* m_renderFinishedSemaphores[m_currentFrame]
      fence |-> m_currentFrame ]     \* m_inFlightFences[m_currentFrame]

drawFrame_submit ==
    /\ pc = "vkQueueSubmit"
    /\ \E res \in SubmitResults :
         IF res = VK_SUCCESS
         THEN /\ graphicsQueue' = graphicsQueue \cup { submitInfo }
              /\ pc' = "vkQueuePresentKHR"
         ELSE /\ pc' = "fatal"
              /\ UNCHANGED graphicsQueue
    /\ Log(<< "vkQueueSubmit" >>)
    /\ UNCHANGED << rcReturn, hostVars, m_initialized, frameVars, syncVars,
                    chainVars, handles, image, presentQueue >>

\* The VkPresentInfoKHR drawFrame builds: pWaitSemaphores = signalSemaphores.
presentInfo ==
    [ img |-> imageIndex,
      wait |-> m_currentFrame ]      \* m_renderFinishedSemaphores[m_currentFrame]

\* Fault variant of presentNeedsRecreate: the resize flag is not looked at.
presentNeedsRecreate_IgnoresResize(res, resized) ==
    res = VK_ERROR_OUT_OF_DATE_KHR \/ res = VK_SUBOPTIMAL_KHR

\* `result == OUT_OF_DATE || result == SUBOPTIMAL || m_framebufferResized`
presentNeedsRecreate(res, resized) ==
    res = VK_ERROR_OUT_OF_DATE_KHR \/ res = VK_SUBOPTIMAL_KHR \/ resized

\* Fault variant of drawFrame_resizeHandled: the flag is left as it is.
drawFrame_resizeHandled_KeepsFlag == UNCHANGED m_framebufferResized

\* `m_framebufferResized = false;` in the branch that recreates.
drawFrame_resizeHandled == m_framebufferResized' = FALSE

\* vkQueuePresentKHR and the branch on its result.  A request that is accepted
\* or rejected as stale is enqueued with its semaphore wait; one that fails
\* otherwise may or may not have been enqueued.
drawFrame_present ==
    /\ pc = "vkQueuePresentKHR"
    /\ \E res \in PresentResults, enqueued \in BOOLEAN :
        /\ res # VK_ERROR_OUT_OF_HOST_MEMORY => enqueued
        /\ result' = res
        /\ IF enqueued
           THEN /\ presentQueue' = Append(presentQueue, presentInfo)
                /\ image' = [image EXCEPT ![imageIndex].st = "queued"]
           ELSE UNCHANGED << presentQueue, image >>
        /\ IF presentNeedsRecreate(res, m_framebufferResized)
           THEN /\ drawFrame_resizeHandled
                /\ rcReturn' = "advance"
                /\ pc' = "vkDeviceWaitIdle"
           ELSE IF res # VK_SUCCESS
           THEN /\ pc' = "fatal"
                /\ UNCHANGED << m_framebufferResized, rcReturn >>
           ELSE /\ pc' = "advance"
                /\ UNCHANGED << m_framebufferResized, rcReturn >>
    /\ Log(<< "vkQueuePresentKHR" >>)
    /\ UNCHANGED << hostVars, m_initialized, m_currentFrame, imageIndex, syncVars,
                    chainVars, handles, graphicsQueue >>

\* Fault variant of nextFrame: the modulo is forgotten.
nextFrame_NoWrap(current, size) == current + 1

\* (m_currentFrame + 1) % m_commandBuffers.size()
nextFrame(current, size) == (current + 1) % size

drawFrame_advance ==
    /\ pc = "advance"
    /\ m_currentFrame' = nextFrame(m_currentFrame, NumSlots)
    /\ pc' = "return"
    /\ Log(<< "advance" >>)
    /\ UNCHANGED << rcReturn, hostVars, m_initialized, m_framebufferResized, result,
                    imageIndex, syncVars, chainVars, handles, deviceVars >>

----------------------------------------------------------------------------
(* VulkanRenderer::initVulkan: the stages and the objects they create.     *)

\* #ifdef NDEBUG ... ENABLE_VALIDATION_LAYER: the debug build.
ENABLE_VALIDATION_LAYER == TRUE

\* Fault variant of initVulkan: the framebuffers are created before the render
\* pass and the pipeline.
initVulkan_FramebuffersFirst ==
    << "createInstance", "setupDebugMessenger", "createSurface", "pickPhysicalDevice",
       "createLogicalDevice", "createSwapChain", "createImageViews",
       "createFramebuffers", "createRenderPass", "createGraphicsPipeline",
       "createCommandPool", "createCommandBuffers", "createSyncObjects" >>

\* The stages of initVulkan(), in the order of its calls.
initVulkan ==
    << "createInstance", "setupDebugMessenger", "createSurface", "pickPhysicalDevice",
       "createLogicalDevice", "createSwapChain", "createImageViews", "createRenderPass",
       "createGraphicsPipeline", "createFramebuffers", "createCommandPool",
       "createCommandBuffers", "createSyncObjects" >>

\* The members a stage fills with objects it creates (pickPhysicalDevice only
\* selects a handle, it creates nothing that is destroyed).
Creates(stage) ==
    CASE stage = "createInstance" -> { "m_instance" }
      [] stage = "setupDebugMessenger" ->
             IF ENABLE_VALIDATION_LAYER THEN { "m_debugMessenger" } ELSE {}
      [] stage = "createSurface" -> { "m_surface" }
      [] stage = "pickPhysicalDevice" -> {}
      [] stage = "createLogicalDevice" -> { "m_device" }
      [] stage = "createSwapChain" -> { "m_swapChain" }
      [] stage = "createImageViews" -> { "m_swapChainImageViews" }
      [] stage = "createRenderPass" -> { "m_renderPass" }
      [] stage = "createGraphicsPipeline" -> { "m_pipelineLayout", "m_graphicsPipeline" }
      [] stage = "createFramebuffers" -> { "m_swapChainFramebuffers" }
      [] stage = "createCommandPool" -> { "m_commandPool" }
      [] stage = "createCommandBuffers" -> { "m_commandBuffers" }
      [] stage = "createSyncObjects" ->
             { "m_imageAvailableSemaphores", "m_renderFinishedSemaphores",
               "m_inFlightFences" }

\* Every member that holds objects the renderer owns.
Objects == UNION { Creates(initVulkan[i]) : i \in 1..Len(initVulkan) }

\* The object (or the objects) held by a member exist.
Alive(member) ==
    CASE member = "m_swapChain" -> m_swapChain.live
      [] member = "m_swapChainImageViews" -> m_swapChainImageViews.live
      [] member = "m_swapChainFramebuffers" -> m_swapChainFramebuffers.live
      [] member = "m_commandBuffers" ->
             \E s \in DOMAIN m_commandBuffers : m_commandBuffers[s] = "allocated"
      [] OTHER -> handles[member].live



\* The members a stage reads: the handles it passes to the backend, and the
\* vectors whose size or elements it uses (the chain's images, format and
\* extent come with m_swapChain).
Consumes(stage) ==
    CASE stage = "createInstance" -> {}
      [] stage = "setupDebugMessenger" -> { "m_instance" }
      [] stage = "createSurface" -> { "m_instance" }
      [] stage = "pickPhysicalDevice" -> { "m_instance", "m_surface" }
      [] stage = "createLogicalDevice" -> { "m_physicalDevice", "m_surface" }
      [] stage = "createSwapChain" -> { "m_physicalDevice", "m_surface", "m_device" }
      [] stage = "createImageViews" -> { "m_device", "m_swapChain" }
      [] stage = "createRenderPass" -> { "m_device", "m_swapChain" }
      [] stage = "createGraphicsPipeline" -> { "m_device", "m_renderPass" }
      [] stage = "createFramebuffers" ->
             { "m_device", "m_swapChain", "m_swapChainImageViews", "m_renderPass" }
      [] stage = "createCommandPool" -> { "m_physicalDevice", "m_surface", "m_device" }
      [] stage = "createCommandBuffers" ->
             { "m_device", "m_commandPool", "m_swapChainFramebuffers" }
      [] stage = "createSyncObjects" -> { "m_device", "m_commandBuffers" }

\* The objects a member's objects are created from: the handles given to the
\* call that creates them (the physical device belongs to the instance, the
\* swap chain images to the swap chain).
CreatedFrom(member) ==
    CASE member = "m_instance" -> {}
      [] member = "m_debugMessenger" -> { "m_instance" }
      [] member = "m_surface" -> { "m_instance" }
      [] member = "m_device" -> { "m_instance" }
      [] member = "m_swapChain" -> { "m_device", "m_surface" }
      [] member = "m_swapChainImageViews" -> { "m_device", "m_swapChain" }
      [] member = "m_renderPass" -> { "m_device" }
      [] member = "m_pipelineLayout" -> { "m_device" }
      [] member = "m_graphicsPipeline" -> { "m_device", "m_pipelineLayout", "m_renderPass" }
      [] member = "m_swapChainFramebuffers" ->
             { "m_device", "m_renderPass", "m_swapChainImageViews" }
      [] member = "m_commandPool" -> { "m_device" }
      [] member = "m_commandBuffers" -> { "m_device", "m_commandPool" }
      [] member \in { "m_imageAvailableSemaphores", "m_renderFinishedSemaphores",
                      "m_inFlightFences" } -> { "m_device" }

----------------------------------------------------------------------------
(* VulkanRenderer::recreateSwapChain and what it calls.                    *)

\* Fault variant of recreateSwapChain: the new objects are created first and
\* cleanupSwapChain() runs last.
recreateSwapChain_CreatesBeforeCleanup ==
    << "vkDeviceWaitIdle",
       "createSwapChain", "createImageViews", "createFramebuffers",
       "vkDestroyFramebuffer", "vkDestroyImageView", "vkDestroySwapchainKHR" >>

\* Fault variant of recreateSwapChain: the framebuffers are not made again.
recreateSwapChain_NoFramebuffers ==
    << "vkDeviceWaitIdle",
       "vkDestroyFramebuffer", "vkDestroyImageView", "vkDestroySwapchainKHR",
       "createSwapChain", "createImageViews" >>

\* The calls of recreateSwapChain() (cleanupSwapChain() inlined), in order.
recreateSwapChain ==
    << "vkDeviceWaitIdle",
       "vkDestroyFramebuffer", "vkDestroyImageView", "vkDestroySwapchainKHR",
       "createSwapChain", "createImageViews", "createFramebuffers" >>

RecreateSteps == { recreateSwapChain[i] : i \in 1..Len(recreateSwapChain) }


\* Fault variant of cleanup: the device is destroyed before the command pool.
cleanup_DeviceBeforePool ==
    << "close",
       "vkDestroyFramebuffer", "vkDestroyImageView", "vkDestroySwapchainKHR",
       "vkDestroyPipeline", "vkDestroyPipelineLayout", "vkDestroyRenderPass",
       "vkDestroySemaphore/vkDestroyFence", "vkDestroyDevice", "vkDestroyCommandPool",
       "DestroyDebugUtilsMessengerEXT", "vkDestroySurfaceKHR", "vkDestroyInstance" >>

\* The calls of cleanup() with m_initialized true (cleanupSwapChain() inlined),
\* in order; "close" is the position of its vkDeviceWaitIdle, and the loop
\* over the frame slots that destroys the semaphores and fences is one step.
cleanup ==
    << "close",
       "vkDestroyFramebuffer", "vkDestroyImageView", "vkDestroySwapchainKHR",
       "vkDestroyPipeline", "vkDestroyPipelineLayout", "vkDestroyRenderPass",
       "vkDestroySemaphore/vkDestroyFence", "vkDestroyCommandPool", "vkDestroyDevice",
       "DestroyDebugUtilsMessengerEXT", "vkDestroySurfaceKHR", "vkDestroyInstance" >>

\* The function whose steps the host thread is making: rcReturn tells the
\* caller of cleanupSwapChain() and of the three create functions that
\* initVulkan() and recreateSwapChain() share.
Callee ==
    IF rcReturn = "cleanup" THEN cleanup
    ELSE IF rcReturn = "initVulkan" THEN initVulkan
    ELSE recreateSwapChain

\* The position after `step` of recreateSwapChain(), cleanup() or
\* initVulkan(): the next call, or the continuation (drawFrame returns, or goes
\* on to advance the frame; cleanup and initVulkan set m_initialized).
AfterStep(step) ==
    LET i == CHOOSE j \in 1..Len(Callee) : Callee[j] = step
    IN  IF i < Len(Callee) THEN Callee[i + 1]
        ELSE IF rcReturn = "cleanup" THEN "m_initialized = false"
        ELSE IF rcReturn = "initVulkan" THEN "m_initialized = true"
        ELSE IF rcReturn = "advance" THEN "advance"
        ELSE "return"

\* Where a std::runtime_error thrown by a create function lands: in the catch
\* of GameApp::initVulkanRenderer during initVulkan(); nowhere when thrown
\* from drawFrame(), which ends the process.
Throw == IF rcReturn = "initVulkan" THEN "catch" ELSE "fatal"

recreateSwapChain_waitIdle ==
    /\ pc = "vkDeviceWaitIdle"
    /\ DeviceIdle
    /\ pc' = AfterStep("vkDeviceWaitIdle")
    /\ Log(<< "vkDeviceWaitIdle" >>)
    /\ UNCHANGED << rcReturn, hostVars, m_initialized, frameVars, syncVars,
                    chainVars, handles, deviceVars >>

\* cleanupSwapChain: for (auto framebuffer : m_swapChainFramebuffers) vkDestroyFramebuffer
cleanupSwapChain_framebuffers ==
    /\ pc = "vkDestroyFramebuffer"
    /\ m_swapChainFramebuffers' = [m_swapChainFramebuffers EXCEPT !.live = FALSE]
    /\ pc' = AfterStep("vkDestroyFramebuffer")
    /\ Log(<< "vkDestroyFramebuffer" >>)
    /\ UNCHANGED << rcReturn, hostVars, m_initialized, frameVars, syncVars,
                    m_swapChain, m_swapChainImages, m_swapChainImageFormat,
                    m_swapChainExtent, m_swapChainImageViews, handles, deviceVars >>

\* cleanupSwapChain: for (auto imageView : m_swapChainImageViews) vkDestroyImageView.
\* What was made from the views (the framebuffers, if still there) now dangles.
cleanupSwapChain_imageViews ==
    /\ pc = "vkDestroyImageView"
    /\ m_swapChainImageViews' = [m_swapChainImageViews EXCEPT !.live = FALSE]
    /\ m_swapChainFramebuffers' = [m_swapChainFramebuffers EXCEPT !.onViews = FALSE]
    /\ pc' = AfterStep("vkDestroyImageView")
    /\ Log(<< "vkDestroyImageView" >>)
    /\ UNCHANGED << rcReturn, hostVars, m_initialized, frameVars, syncVars,
                    m_swapChain, m_swapChainImages, m_swapChainImageFormat,
                    m_swapChainExtent, handles, deviceVars >>

\* cleanupSwapChain: vkDestroySwapchainKHR; the chain's images go with it, so
\* the handles in m_swapChainImages and what was made from them dangle.
cleanupSwapChain_swapchain ==
    /\ pc = "vkDestroySwapchainKHR"
    /\ m_swapChain' = [m_swapChain EXCEPT !.live = FALSE]
    /\ m_swapChainImages' = [m_swapChainImages EXCEPT !.valid = FALSE]
    /\ m_swapChainImageViews' = [m_swapChainImageViews EXCEPT !.onImages = FALSE]
    /\ image' = << >>
    /\ pc' = AfterStep("vkDestroySwapchainKHR")
    /\ Log(<< "vkDestroySwapchainKHR" >>)
    /\ UNCHANGED << rcReturn, hostVars, m_initialized, frameVars, syncVars,
                    m_swapChainImageFormat, m_swapChainExtent,
                    m_swapChainFramebuffers, handles,
                    graphicsQueue, presentQueue >>

\* Fault variant of createSwapChain_frame: creating the chain restarts the
\* frame index.
createSwapChain_frame_ResetsFrame ==
    /\ m_currentFrame' = 0
    /\ UNCHANGED << rcReturn, hostVars, m_initialized, m_framebufferResized, result,
                    imageIndex, syncVars, m_swapChainImageViews,
                    m_swapChainFramebuffers, handles, graphicsQueue, presentQueue >>

\* What createSwapChain() leaves alone.
createSwapChain_frame ==
    UNCHANGED << rcReturn, hostVars, m_initialized, frameVars, syncVars,
                 m_swapChainImageViews, m_swapChainFramebuffers, handles,
                 graphicsQueue, presentQueue >>

createSwapChain ==
    /\ pc = "createSwapChain"
    /\ \E caps \in SurfaceCapabilities, formats \in SurfaceFormatLists,
          window \in Extents, res \in CreateResults :
        LET surfaceFormat == chooseSwapSurfaceFormat(formats)
            extent == chooseSwapExtent(caps, window)
            imageCount == swapChainImageCount(caps)
        IN  /\ imageCount <= MaxImageCount
            /\ IF res = VK_SUCCESS
               THEN /\ m_swapChain' = [live |-> TRUE]
                    /\ m_swapChainImages' = [n |-> imageCount, valid |-> TRUE]
                    /\ image' = NewImages(imageCount)
                    /\ m_swapChainImageFormat' = surfaceFormat.format
                    /\ m_swapChainExtent' = extent
                    /\ pc' = AfterStep("createSwapChain")
               ELSE /\ pc' = Throw
                    /\ UNCHANGED << m_swapChain, m_swapChainImages, image,
                                    m_swapChainImageFormat, m_swapChainExtent >>
    /\ Log(<< "createSwapChain" >>)
    /\ createSwapChain_frame

createImageViews ==
    /\ pc = "createImageViews"
    /\ \E res \in CreateResults :
         IF res = VK_SUCCESS
         THEN /\ m_swapChainImageViews' = [n |-> m_swapChainImages.n,
                                           live |-> TRUE,
                                           onImages |-> m_swapChainImages.valid]
              /\ pc' = AfterStep("createImageViews")
         ELSE /\ m_swapChainImageViews' = [n |-> m_swapChainImages.n,
                                           live |-> FALSE,
                                           onImages |-> m_swapChainImages.valid]
              /\ pc' = Throw
    /\ Log(<< "createImageViews" >>)
    /\ UNCHANGED << rcReturn, hostVars, m_initialized, frameVars, syncVars,
                    m_swapChain, m_swapChainImages, m_swapChainImageFormat,
                    m_swapChainExtent, m_swapChainFramebuffers, handles, deviceVars >>

\* Fault variant of createFramebuffers_resize: the vector keeps its size.
createFramebuffers_resize_KeepsSize == m_swapChainFramebuffers.n

\* m_swapChainFramebuffers.resize(m_swapChainImageViews.size())
createFramebuffers_resize == m_swapChainImageViews.n

\* One framebuffer per image view, in the order of the views, each on its
\* view and with the extent of m_swapChainExtent; a failed vkCreateFramebuffer
\* throws.
createFramebuffers ==
    /\ pc = "createFramebuffers"
    /\ \E res \in CreateResults :
         IF res = VK_SUCCESS
         THEN /\ m_swapChainFramebuffers' = [n |-> createFramebuffers_resize,
                                             live |-> TRUE,
                                             onViews |-> m_swapChainImageViews.live,
                                             extent |-> m_swapChainExtent]
              /\ pc' = AfterStep("createFramebuffers")
         ELSE /\ m_swapChainFramebuffers' = [n |-> createFramebuffers_resize,
                                             live |-> FALSE,
                                             onViews |-> m_swapChainImageViews.live,
                                             extent |-> m_swapChainExtent]
              /\ pc' = Throw
    /\ Log(<< "createFramebuffers" >>)
    /\ UNCHANGED << rcReturn, hostVars, m_initialized, frameVars, syncVars,
                    m_swapChain, m_swapChainImages, m_swapChainImageFormat,
                    m_swapChainExtent, m_swapChainImageViews, handles, deviceVars >>

----------------------------------------------------------------------------
(* GameApp::close -> VulkanRenderer::cleanup.                              *)

\* m_renderer->cleanup(): vkDeviceWaitIdle(m_device) and the test of
\* m_initialized.  Through an empty m_renderer, or on a device that has been
\* destroyed or was never created, the call is undefined: it may return or end
\* the process.
cleanup_waitIdle ==
    /\ pc = "close"
    /\ Log(<< "vkDeviceWaitIdle" >>)
    /\ IF m_renderer /\ handles["m_device"].live
       THEN /\ DeviceIdle
            /\ IF m_initialized
               THEN pc' = "vkDestroyFramebuffer" /\ rcReturn' = "cleanup"
               ELSE pc' = "SDL_DestroyWindow" /\ UNCHANGED rcReturn
       ELSE /\ pc' \in { "SDL_DestroyWindow", "crashed" }
            /\ UNCHANGED rcReturn
    /\ UNCHANGED << hostVars, m_initialized, frameVars, syncVars, chainVars, handles,
                    deviceVars >>

\* The members whose objects a call of cleanup() destroys.
Destroys(call) ==
    CASE call = "vkDestroyPipeline" -> { "m_graphicsPipeline" }
      [] call = "vkDestroyPipelineLayout" -> { "m_pipelineLayout" }
      [] call = "vkDestroyRenderPass" -> { "m_renderPass" }
      [] call = "vkDestroySemaphore/vkDestroyFence" ->
             { "m_renderFinishedSemaphores", "m_imageAvailableSemaphores",
               "m_inFlightFences" }
      [] call = "vkDestroyCommandPool" -> { "m_commandPool" }
      [] call = "vkDestroyDevice" -> { "m_device" }
      [] call = "DestroyDebugUtilsMessengerEXT" ->
             IF ENABLE_VALIDATION_LAYER THEN { "m_debugMessenger" } ELSE {}
      [] call = "vkDestroySurfaceKHR" -> { "m_surface" }
      [] call = "vkDestroyInstance" -> { "m_instance" }

\* One of the destroy calls of cleanup() after cleanupSwapChain().  Destroyed
\* semaphores and fences carry no state; destroying the pool frees the
\* command buffers.
cleanup_destroy(call) ==
    /\ pc = call
    /\ handles' = [ h \in DOMAIN handles |->
                      IF h \in Destroys(call) THEN [handles[h] EXCEPT !.live = FALSE]
                      ELSE handles[h] ]
    /\ IF call = "vkDestroySemaphore/vkDestroyFence"
       THEN /\ m_imageAvailableSemaphores' = [ s \in FrameSlots |-> FALSE ]
            /\ m_renderFinishedSemaphores' = [ s \in FrameSlots |-> FALSE ]
            /\ m_inFlightFences' = [ s \in FrameSlots |-> FALSE ]
       ELSE UNCHANGED << m_imageAvailableSemaphores, m_renderFinishedSemaphores,
                         m_inFlightFences >>
    /\ IF call = "vkDestroyCommandPool"
       THEN m_commandBuffers' = [ s \in FrameSlots |-> "freed" ]
       ELSE UNCHANGED m_commandBuffers
    /\ pc' = AfterStep(call)
    /\ Log(<< call >>)
    /\ UNCHANGED << rcReturn, hostVars, m_initialized, frameVars, chainVars, deviceVars >>

\* The end of cleanup(): m_initialized = false.
cleanup_done ==
    /\ pc = "m_initialized = false"
    /\ m_initialized' = FALSE
    /\ pc' = "SDL_DestroyWindow"
    /\ UNCHANGED << rcReturn, trace, hostVars, frameVars, syncVars, chainVars, handles,
                    deviceVars >>

\* The rest of GameApp::close(): SDL_DestroyWindow, SDL_Quit, m_isRunning = false.
close ==
    /\ pc = "SDL_DestroyWindow"
    /\ m_isRunning' = FALSE
    /\ pc' = "closed"
    /\ UNCHANGED << rcReturn, trace, framesCompleted, m_isMinimized, m_renderer, helper,
                    m_initialized,
                    frameVars, syncVars, chainVars, handles, deviceVars >>



----------------------------------------------------------------------------
(* main -> GameApp::run -> GameApp::init -> VulkanRenderer::VulkanRenderer. *)

VK_FORMAT_UNDEFINED == "VK_FORMAT_UNDEFINED"

\* The process at the start of main(): GameApp's members have their default
\* values, no renderer exists and nothing has been created.
Start ==
    /\ pc = "main"
    /\ rcReturn = "none"
    /\ trace = << >>
    /\ framesCompleted = 0
    /\ m_isRunning = FALSE
    /\ m_isMinimized = FALSE
    /\ m_renderer = FALSE
    /\ helper = NoCall
    /\ m_initialized = FALSE
    /\ m_currentFrame = 0
    /\ m_framebufferResized = FALSE
    /\ result = VK_SUCCESS
    /\ imageIndex = NoImage
    /\ m_commandBuffers = << >>
    /\ m_inFlightFences = << >>
    /\ m_imageAvailableSemaphores = << >>
    /\ m_renderFinishedSemaphores = << >>
    /\ m_swapChain = [live |-> FALSE]
    /\ m_swapChainImages = [n |-> 0, valid |-> FALSE]
    /\ m_swapChainImageFormat = VK_FORMAT_UNDEFINED
    /\ m_swapChainExtent = << 0, 0 >>
    /\ m_swapChainImageViews = [n |-> 0, live |-> FALSE, onImages |-> FALSE]
    /\ m_swapChainFramebuffers = [n |-> 0, live |-> FALSE, onViews |-> FALSE,
                                  extent |-> << 0, 0 >>]
    /\ handles = [ h \in LongLived |-> [id |-> VK_NULL_HANDLE, live |-> FALSE] ]
    /\ image = << >>
    /\ graphicsQueue = {}
    /\ presentQueue = << >>

\* GameApp::run calls init(), which calls initWindow(): on failure init()
\* returns false; on success it goes on to initVulkanRenderer(), whose
\* make_unique runs the constructor and so initVulkan().
initWindow ==
    /\ pc = "main"
    /\ \E ok \in BOOLEAN :
         IF ok THEN pc' = initVulkan[1] /\ rcReturn' = "initVulkan"
         ELSE pc' = "initFailed" /\ UNCHANGED rcReturn
    /\ UNCHANGED << trace, hostVars, m_initialized, frameVars, syncVars, chainVars,
                    handles, deviceVars >>

\* The stages of initVulkan() that only it calls.
OwnStages == { initVulkan[i] : i \in 1..Len(initVulkan) } \ RecreateSteps

\* Whether a stage can succeed and can throw.  pickPhysicalDevice throws on
\* what the enumeration reports, the others when their create call fails;
\* setupDebugMessenger returns at once without the validation layer.
StageOutcomes(stage) ==
    IF stage = "pickPhysicalDevice"
    THEN { ~pickPhysicalDevice(devices).threw : devices \in DeviceLists }
    ELSE IF stage = "setupDebugMessenger" /\ ~ENABLE_VALIDATION_LAYER THEN { TRUE }
    ELSE { res = VK_SUCCESS : res \in CreateResults }

\* What a stage that throws can have created before: createGraphicsPipeline
\* throws with or without the pipeline layout, createSyncObjects after any of
\* the three create calls of a slot.
Partial(stage) ==
    IF stage = "createGraphicsPipeline" THEN { {}, { "m_pipelineLayout" } }
    ELSE IF stage = "createSyncObjects"
    THEN { {}, { "m_imageAvailableSemaphores" },
           { "m_imageAvailableSemaphores", "m_renderFinishedSemaphores" } }
    ELSE { {} }

\* Fault variant of createCommandBuffers_resize: one command buffer short.
createCommandBuffers_resize_OneShort == m_swapChainFramebuffers.n - 1

\* m_commandBuffers.resize(m_swapChainFramebuffers.size())
createCommandBuffers_resize == m_swapChainFramebuffers.n

\* One stage of initVulkan().  It creates its objects, or throws and leaves
\* what it had created.  createCommandBuffers sizes m_commandBuffers by the
\* framebuffers, createSyncObjects sizes the three vectors by m_commandBuffers
\* and creates the fences signaled.
initVulkan_stage(stage) ==
    /\ pc = stage
    /\ rcReturn = "initVulkan"
    /\ \E ok \in StageOutcomes(stage) :
       \E made \in (IF ok THEN { Creates(stage) \cup
                                   (IF stage = "pickPhysicalDevice"
                                    THEN { "m_physicalDevice" } ELSE {}) }
                    ELSE Partial(stage)) :
         /\ handles' = [ h \in DOMAIN handles |->
                           IF h \in made THEN [id |-> 1, live |-> TRUE] ELSE handles[h] ]
         /\ IF stage = "createCommandBuffers"
            THEN m_commandBuffers' =
                     [ s \in 0..(createCommandBuffers_resize - 1) |->
                         IF ok THEN "allocated" ELSE "null" ]
            ELSE UNCHANGED m_commandBuffers
         /\ IF stage = "createSyncObjects"
            THEN /\ m_imageAvailableSemaphores' = [ s \in FrameSlots |-> FALSE ]
                 /\ m_renderFinishedSemaphores' = [ s \in FrameSlots |-> FALSE ]
                 /\ m_inFlightFences' = [ s \in FrameSlots |-> ok ]
            ELSE UNCHANGED << m_imageAvailableSemaphores, m_renderFinishedSemaphores,
                              m_inFlightFences >>
         /\ pc' = IF ok THEN AfterStep(stage) ELSE Throw
    /\ Log(<< stage >>)
    /\ UNCHANGED << rcReturn, hostVars, m_initialized, frameVars, chainVars, deviceVars >>

\* The end of initVulkan() and of the constructor: m_initialized = true, and
\* make_unique's result is moved into m_renderer.  initVulkanRenderer()
\* returns true and init() goes on to initTime().
initVulkan_done ==
    /\ pc = "m_initialized = true"
    /\ m_initialized' = TRUE
    /\ m_renderer' = TRUE
    /\ pc' = "initTime"
    /\ rcReturn' = "none"
    /\ UNCHANGED << trace, framesCompleted, m_isRunning, m_isMinimized, helper, frameVars,
                    syncVars, chainVars, handles, deviceVars >>


\* Fault variant of initVulkanRenderer_catch: the catch swallows the failure
\* and initVulkanRenderer() returns true.
initVulkanRenderer_catch_ReturnsTrue ==
    /\ pc = "catch"
    /\ pc' = "initTime"
    /\ rcReturn' = "none"
    /\ UNCHANGED << trace, hostVars, m_initialized, frameVars, syncVars, chainVars,
                    handles, deviceVars >>

\* The catch of initVulkanRenderer(): the constructor threw, m_renderer is not
\* assigned, initVulkanRenderer() and init() return false.
initVulkanRenderer_catch ==
    /\ pc = "catch"
    /\ pc' = "initFailed"
    /\ rcReturn' = "none"
    /\ UNCHANGED << trace, hostVars, m_initialized, frameVars, syncVars, chainVars,
                    handles, deviceVars >>

\* initTime(): on failure init() returns false; on success init() sets
\* m_isRunning, returns true, and run() enters its loop.
initTime ==
    /\ pc = "initTime"
    /\ \E ok \in BOOLEAN :
         IF ok THEN m_isRunning' = TRUE /\ pc' = "poll" /\ trace' = << >>
         ELSE pc' = "initFailed" /\ UNCHANGED << m_isRunning, trace >>
    /\ UNCHANGED << rcReturn, framesCompleted, m_isMinimized, m_renderer, helper,
                    m_initialized, frameVars, syncVars, chainVars, handles, deviceVars >>

\* Fault variant of main_return: ~GameApp calls close() whatever m_isRunning.
main_return_AlwaysCloses ==
    /\ pc \in { "initFailed", "closed" }
    /\ pc' = "close"
    /\ UNCHANGED << rcReturn, trace, hostVars, m_initialized, frameVars, syncVars,
                    chainVars, handles, deviceVars >>

\* run() returns to main (init() failed, or close() is done), main returns 0
\* and ~GameApp calls close() again only if m_isRunning is still set.
main_return ==
    /\ pc \in { "initFailed", "closed" }
    /\ pc' = IF m_isRunning THEN "close" ELSE "exited"
    /\ UNCHANGED << rcReturn, trace, hostVars, m_initialized, frameVars, syncVars,
                    chainVars, handles, deviceVars >>

\* The process has ended: main returned, or an exception nothing catches
\* called std::terminate, or the process crashed.
Exited == pc \in { "exited", "fatal", "crashed" }

\* The status the process ends with: 0 from main's `return 0`, 128 + SIGABRT
\* from the abort of std::terminate or a crash.
exitCode == IF pc = "exited" THEN 0 ELSE 128 + 6


\* cleanup() is public and can be called in any renderer state: here its
\* caller calls it once more after it has returned (through GameApp::close,
\* as ~GameApp does when m_isRunning is set), up to MaxCleanupCalls times.
MaxCleanupCalls == 3

cleanup_again ==
    /\ pc = "closed"
    /\ Cardinality({ i \in 1..Len(trace) : trace[i] = "vkDeviceWaitIdle" }) < MaxCleanupCalls
    /\ pc' = "close"
    /\ UNCHANGED << rcReturn, trace, hostVars, m_initialized, frameVars, syncVars,
                    chainVars, handles, deviceVars >>


----------------------------------------------------------------------------
(* The helper functions of device selection and of createSwapChain, each   *)
(* called on its own with one of the inputs the backend can report.        *)

\* chooseSwapExtent's inputs: the surface capabilities (the current extent
\* defined or the sentinel, two minimum and two maximum extents) and the
\* window's size in pixels, below, inside and above the limits.
ExtentQueries ==
    [ capabilities : [ currentExtent : Extents \cup { << UINT32_MAX, UINT32_MAX >> },
                       minImageExtent : { << 1, 1 >>, << 100, 100 >> },
                       maxImageExtent : { << 640, 480 >>, << 4096, 4096 >> } ],
      windowPixels : Extents \cup { << 50, 50 >>, << 5000, 300 >> } ]

\* Swap chain extents recordCommandBuffer() may meet: both sides positive,
\* the 4:3 extent, wider and taller ones, and sides 3 and 4 do not divide.
ViewportExtents ==
    { << w, h >> : w \in { 1, 3, 4, 600, 601, 800, 1000 },
                   h \in { 1, 3, 4, 600, 601, 800, 1000 } }

\* The devices findQueueFamilies() is asked about: every list of up to
\* MaxQueueFamilies queue families.
QueueFamilyLists ==
    [ queueFamilies : SeqsOf(QueueFamilyProperties, 0, MaxQueueFamilies) ]

\* The devices createLogicalDevice() and createSwapChain() work on: the ones
\* pickPhysicalDevice() can have selected, which have both queue families.
SelectedDevices == { d \in QueueFamilyLists : isComplete(findQueueFamilies(d)) }

\* createSwapChain's image count limits: small counts and the largest
\* uint32_t value, maxImageCount 0 standing for no limit.
ImageCountLimits ==
    [ minImageCount : 1..MaxImageCount \cup { UINT32_MAX },
      maxImageCount : 0..MaxImageCount \cup { UINT32_MAX } ]

HelperCalls ==
    [ fn : { "pickPhysicalDevice" }, arg : DeviceLists, done : { FALSE } ] \cup
    [ fn : { "isDeviceSuitable" }, arg : PhysicalDevices, done : { FALSE } ] \cup
    [ fn : { "chooseSwapSurfaceFormat" }, arg : AvailableFormats, done : { FALSE } ] \cup
    [ fn : { "chooseSwapPresentMode" }, arg : AvailablePresentModes, done : { FALSE } ] \cup
    [ fn : { "chooseSwapExtent" }, arg : ExtentQueries, done : { FALSE } ] \cup
    [ fn : { "swapChainImageCount" }, arg : ImageCountLimits, done : { FALSE } ] \cup
    [ fn : { "recordCommandBuffer" }, arg : ViewportExtents, done : { FALSE } ] \cup
    [ fn : { "findQueueFamilies" }, arg : QueueFamilyLists, done : { FALSE } ] \cup
    [ fn : { "createLogicalDevice" }, arg : SelectedDevices, done : { FALSE } ]

\* The renderer under construction, about to call one helper.
HelperInit ==
    /\ pc = "helper"
    /\ rcReturn = "none"
    /\ trace = << >>
    /\ framesCompleted = 0
    /\ m_isRunning = FALSE
    /\ m_isMinimized = FALSE
    /\ m_renderer = FALSE
    /\ helper \in HelperCalls
    /\ m_initialized = FALSE
    /\ m_currentFrame = 0
    /\ m_framebufferResized = FALSE
    /\ result = VK_SUCCESS
    /\ imageIndex = NoImage
    /\ m_commandBuffers = << >>
    /\ m_inFlightFences = << >>
    /\ m_imageAvailableSemaphores = << >>
    /\ m_renderFinishedSemaphores = << >>
    /\ m_swapChain = [live |-> FALSE]
    /\ m_swapChainImages = [n |-> 0, valid |-> FALSE]
    /\ m_swapChainImageFormat = VK_FORMAT_UNDEFINED
    /\ m_swapChainExtent = << 0, 0 >>
    /\ m_swapChainImageViews = [n |-> 0, live |-> FALSE, onImages |-> FALSE]
    /\ m_swapChainFramebuffers = [n |-> 0, live |-> FALSE, onViews |-> FALSE,
                                  extent |-> << 0, 0 >>]
    /\ handles = [ h \in LongLived |-> [id |-> VK_NULL_HANDLE, live |-> FALSE] ]
    /\ image = << >>
    /\ graphicsQueue = {}
    /\ presentQueue = << >>

\* The helper returns (or throws): its result is kept with the call.
Returns(ret) ==
    /\ pc = "helper"
    /\ ~helper.done
    /\ helper' = [fn |-> helper.fn, arg |-> helper.arg, done |-> TRUE, ret |-> ret]
    /\ pc' = "returned"
    /\ UNCHANGED << rcReturn, trace, framesCompleted, m_isRunning, m_isMinimized,
                    m_renderer, m_initialized, frameVars, syncVars, chainVars, handles,
                    deviceVars >>

pickPhysicalDevice_call ==
    /\ helper.fn = "pickPhysicalDevice"
    /\ Returns(pickPhysicalDevice(helper.arg))

isDeviceSuitable_call ==
    /\ helper.fn = "isDeviceSuitable"
    /\ Returns(isDeviceSuitable(helper.arg))

chooseSwapSurfaceFormat_call ==
    /\ helper.fn = "chooseSwapSurfaceFormat"
    /\ Returns(chooseSwapSurfaceFormat(helper.arg))

chooseSwapPresentMode_call ==
    /\ helper.fn = "chooseSwapPresentMode"
    /\ Returns(chooseSwapPresentMode(helper.arg))

chooseSwapExtent_call ==
    /\ helper.fn = "chooseSwapExtent"
    /\ Returns(chooseSwapExtent(helper.arg.capabilities, helper.arg.windowPixels))

\* The first statements of createSwapChain() that compute imageCount.
swapChainImageCount_call ==
    /\ helper.fn = "swapChainImageCount"
    /\ Returns(swapChainImageCount(helper.arg))

----------------------------------------------------------------------------
(* The device: the graphics queue and the presentation engine.             *)

\* The engine releases an image handed out by vkAcquireNextImageKHR and signals
\* the semaphore given to that call.
ImageAvailable(k) ==
    /\ image[k].sem # NoImage
    /\ image' = [image EXCEPT ![k].sem = NoImage]
    /\ m_imageAvailableSemaphores' =
           [m_imageAvailableSemaphores EXCEPT ![image[k].sem] = TRUE]
    /\ UNCHANGED << pc, rcReturn, trace, hostVars, m_initialized, frameVars,
                    m_commandBuffers, m_inFlightFences, m_renderFinishedSemaphores,
                    chainVars, handles, graphicsQueue, presentQueue >>

\* A submission executes once its wait semaphore is signaled: the wait unsignals
\* that semaphore, the command buffer runs (it writes framebuffer w.fb), and
\* the completion signals the submission's semaphore and fence.  Until then the
\* command buffer is pending.
GpuExecute(w) ==
    /\ m_imageAvailableSemaphores[w.wait]
    /\ m_imageAvailableSemaphores' = [m_imageAvailableSemaphores EXCEPT ![w.wait] = FALSE]
    /\ graphicsQueue' = graphicsQueue \ {w}
    /\ m_renderFinishedSemaphores' = [m_renderFinishedSemaphores EXCEPT ![w.signal] = TRUE]
    /\ m_inFlightFences' = [m_inFlightFences EXCEPT ![w.fence] = TRUE]
    /\ UNCHANGED << pc, rcReturn, trace, hostVars, m_initialized, frameVars,
                    m_commandBuffers, chainVars, handles, image, presentQueue >>

\* The present queue takes its requests in order: the first one's semaphore
\* wait completes, unsignals the semaphore, and the image goes to the engine.
PresentExecute ==
    /\ presentQueue # << >>
    /\ LET p == Head(presentQueue)
       IN  /\ m_renderFinishedSemaphores[p.wait]
           /\ m_renderFinishedSemaphores' =
                  [m_renderFinishedSemaphores EXCEPT ![p.wait] = FALSE]
           /\ image' = [image EXCEPT ![p.img].st = "peOwned"]
    /\ presentQueue' = Tail(presentQueue)
    /\ UNCHANGED << pc, rcReturn, trace, hostVars, m_initialized, frameVars,
                    m_commandBuffers, m_inFlightFences, m_imageAvailableSemaphores,
                    chainVars, handles, graphicsQueue >>

----------------------------------------------------------------------------

Next ==
    \/ \E event \in Events : handleEvents(event)
    \/ run_render
    \/ run_loop
    \/ drawFrame_waitForFences
    \/ drawFrame_acquire
    \/ drawFrame_record
    \/ drawFrame_submit
    \/ drawFrame_present
    \/ drawFrame_advance
    \/ recreateSwapChain_waitIdle
    \/ cleanupSwapChain_framebuffers
    \/ cleanupSwapChain_imageViews
    \/ cleanupSwapChain_swapchain
    \/ createSwapChain
    \/ createImageViews
    \/ createFramebuffers
    \/ cleanup_waitIdle
    \/ \E call \in { cleanup[i] : i \in 5..Len(cleanup) } : cleanup_destroy(call)
    \/ cleanup_done
    \/ close
    \/ \E k \in DOMAIN image : ImageAvailable(k)
    \/ \E w \in graphicsQueue : GpuExecute(w)
    \/ PresentExecute

Spec == Init /\ [][Next]_vars

\* The whole program, from the start of main().
LifeNext ==
    \/ initWindow
    \/ \E stage \in OwnStages : initVulkan_stage(stage)
    \/ initVulkan_done
    \/ initVulkanRenderer_catch
    \/ initTime
    \/ main_return
    \/ Next

LifeSpec == Start /\ [][LifeNext]_vars

\* The program with a caller that calls cleanup() again.
\* The steps of the host thread other than the arrival of an event: the
\* thread is never suspended for good, so a step it can take is taken.
HostThread ==
    \/ run_render
    \/ run_loop
    \/ drawFrame_waitForFences
    \/ drawFrame_acquire
    \/ drawFrame_record
    \/ drawFrame_submit
    \/ drawFrame_present
    \/ drawFrame_advance
    \/ recreateSwapChain_waitIdle
    \/ cleanupSwapChain_framebuffers
    \/ cleanupSwapChain_imageViews
    \/ cleanupSwapChain_swapchain
    \/ createSwapChain
    \/ createImageViews
    \/ createFramebuffers
    \/ cleanup_waitIdle
    \/ \E call \in { cleanup[i] : i \in 5..Len(cleanup) } : cleanup_destroy(call)
    \/ cleanup_done
    \/ close

\* The steps of the device and the presentation engine: queued work is
\* executed.
Device ==
    \/ \E k \in DOMAIN image : ImageAvailable(k)
    \/ \E w \in graphicsQueue : GpuExecute(w)
    \/ PresentExecute

\* The program with a host thread and a device that keep running.  Events
\* arrive or not, and the results of the backend calls are free.
FairSpec == Init /\ [][Next]_vars /\ WF_vars(HostThread) /\ WF_vars(Device)

ClientNext ==
    \/ cleanup_again
    \/ Next

ClientSpec == Init /\ [][ClientNext]_vars

\* The helper functions on their own.
\* The dynamic state recordCommandBuffer() records for the current extent.
recordCommandBuffer_call ==
    /\ helper.fn = "recordCommandBuffer"
    /\ Returns([viewport |-> viewport(helper.arg), scissor |-> scissor(helper.arg)])

findQueueFamilies_call ==
    /\ helper.fn = "findQueueFamilies"
    /\ Returns(findQueueFamilies(helper.arg))

\* The queues createLogicalDevice() requests for m_physicalDevice, and the
\* sharing mode createSwapChain() derives from the same indices.
createLogicalDevice_call ==
    /\ helper.fn = "createLogicalDevice"
    /\ LET indices == findQueueFamilies(helper.arg)
       IN  Returns([ indices |-> indices,
                     queueCreateInfos |-> queueCreateInfos(indices),
                     imageSharingMode |-> imageSharingMode(indices) ])

HelperNext ==
    \/ pickPhysicalDevice_call
    \/ isDeviceSuitable_call
    \/ chooseSwapSurfaceFormat_call
    \/ chooseSwapPresentMode_call
    \/ chooseSwapExtent_call
    \/ swapChainImageCount_call
    \/ recordCommandBuffer_call
    \/ findQueueFamilies_call
    \/ createLogicalDevice_call

HelperSpec == HelperInit /\ [][HelperNext]_vars

----------------------------------------------------------------------------
(* Properties.                                                             *)

\* The current render() call has made this backend call.
Called(call) == \E i \in 1..Len(trace) : trace[i] = call

\* The host thread is inside recreateSwapChain().
InRecreate ==
    /\ rcReturn \in { "return", "advance" }
    /\ pc \in { "vkDeviceWaitIdle", "vkDestroyFramebuffer", "vkDestroyImageView",
                "vkDestroySwapchainKHR", "createSwapChain", "createImageViews",
                "createFramebuffers" }

\* C1: whenever the host is about to reset the fence and reset and re-record
\* the command buffer of slot m_currentFrame (it has passed the fence wait and
\* the acquire), no submission of that command buffer is pending on the GPU.
C1_NoRewriteWhilePending ==
    pc \in { "vkAcquireNextImageKHR", "vkResetFences" } => ~Pending(m_currentFrame)

\* C1 witness: slot 0 is about to be re-recorded after a full round of the
\* slots, while the submission of slot 1 is still pending.
C1_Witness ==
    /\ pc = "vkResetFences"
    /\ m_currentFrame = 0
    /\ \E w \in graphicsQueue : w.cb = 1

\* C2: a render() call whose acquire reported out-of-date goes straight into
\* recreateSwapChain() and returns; until it has returned m_currentFrame does
\* not change, the slot's fence stays signaled, and the call has not reset the
\* fence, re-recorded, submitted, presented or advanced; when the call returns
\* to the loop the fence of the (same) current slot is signaled, so the next
\* call's wait returns at once.
C2_AcquireOutOfDateAborts ==
    /\ [](rcReturn = "return" =>
            /\ InRecreate \/ pc \in { "return", "fatal" }
            /\ result = VK_ERROR_OUT_OF_DATE_KHR
            /\ m_inFlightFences[m_currentFrame]
            /\ ~Called("vkResetFences") /\ ~Called("vkResetCommandBuffer")
            /\ ~Called("recordCommandBuffer") /\ ~Called("vkQueueSubmit")
            /\ ~Called("vkQueuePresentKHR") /\ ~Called("advance"))
    /\ [][ /\ (pc = "vkAcquireNextImageKHR" /\ result' = VK_ERROR_OUT_OF_DATE_KHR
                  => pc' = "vkDeviceWaitIdle" /\ rcReturn' = "return")
           /\ (rcReturn = "return" \/ rcReturn' = "return"
                  => /\ m_currentFrame' = m_currentFrame
                     /\ m_inFlightFences'[m_currentFrame'])
         ]_vars

\* C2 witness: an aborted call, after earlier frames had moved to slot 1, has
\* gone through the whole recreation and is returning.
C2_Witness ==
    /\ pc = "return"
    /\ rcReturn = "return"
    /\ m_currentFrame = 1
    /\ Called("createFramebuffers")

\* C3 (as stated): m_currentFrame stays in 0..N-1, and it changes only by the
\* advance of a render() call, by exactly 1 modulo N, and only when the
\* frame was successfully submitted and presented (the present returned
\* success or suboptimal).
C3_AdvanceOnlyWhenPresented ==
    /\ [](m_currentFrame \in 0..(NumSlots - 1))
    /\ [][ m_currentFrame' # m_currentFrame =>
             /\ pc = "advance"
             /\ m_currentFrame' = (m_currentFrame + 1) % NumSlots
             /\ Called("vkQueueSubmit")
             /\ Called("vkQueuePresentKHR")
             /\ result \in { VK_SUCCESS, VK_SUBOPTIMAL_KHR }
         ]_vars

\* C3 (amended): m_currentFrame stays in 0..N-1; it changes only by the
\* advance at the end of drawFrame, at most once per render() call, by exactly
\* 1 modulo N, and only in a call whose submit succeeded and whose present has
\* been issued without drawFrame throwing (whatever the present returned);
\* recreation, resize notification and cleanup never change it.
C3_AdvanceOnlyAfterPresentIssued ==
    /\ [](/\ m_currentFrame \in 0..(NumSlots - 1)
          /\ pc = "advance" => ~Called("advance"))
    /\ [][ m_currentFrame' # m_currentFrame =>
             /\ pc = "advance"
             /\ m_currentFrame' = (m_currentFrame + 1) % NumSlots
             /\ Called("vkQueueSubmit")
             /\ Called("vkQueuePresentKHR")
         ]_vars

\* C3 witness: slot 1 of two has just been advanced back to slot 0 by a call
\* whose present reported out-of-date.
C3_Witness ==
    /\ pc = "return"
    /\ NumSlots = 2
    /\ m_currentFrame = 0
    /\ Called("advance")
    /\ result = VK_ERROR_OUT_OF_DATE_KHR

\* C4: between render() calls m_currentFrame equals the number of calls that
\* ran to the end of drawFrame, modulo N.
C4_FrameIsCompletedCount ==
    pc \in { "poll", "close", "closed", "vkWaitForFences" }
        => m_currentFrame = framesCompleted

\* C4 witness: with two slots, the loop is back at slot 0 while the submission
\* of slot 1 is still pending, so two frames have completed.
C4_Witness ==
    /\ pc = "poll"
    /\ NumSlots = 2
    /\ m_currentFrame = 0
    /\ framesCompleted = 0
    /\ \E w \in graphicsQueue : w.cb = 1

\* C5: the step after the present enters recreateSwapChain() if and only if
\* the present returned out-of-date or suboptimal or m_framebufferResized was
\* set; then the flag is false from there until the call returns, the present
\* precedes every call of the recreation, and when the recreation is through
\* drawFrame goes on to advance m_currentFrame by 1 modulo N.
C5_RecreateAfterPresent ==
    /\ [](rcReturn = "advance" =>
            /\ ~m_framebufferResized
            /\ InRecreate \/ pc \in { "advance", "return", "fatal" }
            /\ \E i \in 1..Len(trace) :
                 /\ trace[i] = "vkQueuePresentKHR"
                 /\ \A j \in 1..Len(trace) :
                      trace[j] \in { "vkDeviceWaitIdle", "vkDestroyFramebuffer",
                                     "vkDestroyImageView", "vkDestroySwapchainKHR",
                                     "createSwapChain", "createImageViews",
                                     "createFramebuffers" } => i < j)
    /\ [][ /\ (pc = "vkQueuePresentKHR" /\ pc' # pc =>
                 ((pc' = "vkDeviceWaitIdle" /\ rcReturn' = "advance")
                     <=> (\/ result' = VK_ERROR_OUT_OF_DATE_KHR
                          \/ result' = VK_SUBOPTIMAL_KHR
                          \/ m_framebufferResized)))
           /\ (pc # "vkQueuePresentKHR" /\ pc' # pc /\ pc' = "vkDeviceWaitIdle" =>
                 pc = "vkAcquireNextImageKHR" /\ rcReturn' = "return")
           /\ (rcReturn = "advance" /\ pc = "createFramebuffers"
                 /\ pc' \notin { pc, "fatal" } => pc' = "advance")
           /\ (rcReturn = "advance" /\ pc = "advance" /\ pc' # pc =>
                 m_currentFrame' = (m_currentFrame + 1) % NumSlots)
         ]_vars

\* C5 witness: a present that returned success with the resize flag set was
\* followed by a whole recreation, and the call is about to advance.
C5_Witness ==
    /\ pc = "advance"
    /\ rcReturn = "advance"
    /\ result = VK_SUCCESS
    /\ Called("createFramebuffers")

\* C6: no image is presented before the submission that renders into it has
\* completed: an image the presentation engine has taken (the wait of its
\* present request on the slot's render-finished semaphore is over) is not
\* the target of a submission still in the graphics queue, and every present
\* request waits on the render-finished semaphore of the slot that submitted.
C6_PresentAfterRender ==
    /\ \A k \in DOMAIN image :
          image[k].st = "peOwned" => \A w \in graphicsQueue : w.fb # k
    /\ \A i \in 1..Len(presentQueue), w \in graphicsQueue :
          w.fb = presentQueue[i].img => w.signal = presentQueue[i].wait

C8_NonRecoverableIsFatal ==
    /\ [](result \notin { VK_SUCCESS, VK_SUBOPTIMAL_KHR, VK_ERROR_OUT_OF_DATE_KHR }
             => pc = "fatal")
    /\ [][ pc = "vkQueueSubmit" /\ pc' # pc /\ graphicsQueue' = graphicsQueue
             => pc' = "fatal" ]_vars

\* The order of recreateSwapChain()'s steps that C9 states.
C9_Order ==
    << "vkDeviceWaitIdle", "vkDestroyFramebuffer", "vkDestroyImageView",
       "vkDestroySwapchainKHR", "createSwapChain", "createImageViews",
       "createFramebuffers" >>

C9_IsStep(call) == \E i \in 1..Len(C9_Order) : C9_Order[i] = call

\* C9: the steps recreateSwapChain() has made so far are always a prefix of:
\* device idle-wait, destroy framebuffers, destroy image views, destroy chain,
\* create chain, create image views, create framebuffers, and its next step is
\* the next of them; the device is idle after the wait; when the new chain is
\* created the old framebuffers, image views and chain are all destroyed, and
\* each new object is created on the new object before it.
C9_RecreateOrder ==
    LET steps == SelectSeq(trace, C9_IsStep)
    IN  /\ Len(steps) <= Len(C9_Order)
        /\ \A i \in 1..Len(steps) : steps[i] = C9_Order[i]
        /\ InRecreate => pc = C9_Order[Len(steps) + 1]
        /\ InRecreate /\ pc # "vkDeviceWaitIdle" => DeviceIdle
        /\ pc = "createSwapChain" =>
              /\ ~m_swapChainFramebuffers.live
              /\ ~m_swapChainImageViews.live
              /\ ~m_swapChain.live
        /\ pc = "createImageViews" =>
              /\ ~m_swapChainFramebuffers.live
              /\ ~m_swapChainImageViews.live
              /\ m_swapChain.live /\ m_swapChainImages.valid
        /\ pc = "createFramebuffers" =>
              /\ ~m_swapChainFramebuffers.live
              /\ m_swapChainImageViews.live /\ m_swapChainImageViews.onImages
        /\ Len(steps) = Len(C9_Order) /\ pc # "fatal" =>
              /\ m_swapChain.live /\ m_swapChainImages.valid
              /\ m_swapChainImageViews.live /\ m_swapChainImageViews.onImages
              /\ m_swapChainFramebuffers.live /\ m_swapChainFramebuffers.onViews

\* C9 witness: a recreation started by the out-of-date acquire has made all
\* seven steps.
C9_Witness ==
    /\ pc = "return"
    /\ rcReturn = "return"
    /\ SelectSeq(trace, C9_IsStep) = C9_Order

\* C10: no step of recreateSwapChain() changes the long-lived objects (instance,
\* surface, device, render pass, pipeline layout, graphics pipeline, command
\* pool), the command buffers, the semaphores, the fences, m_currentFrame or
\* the resize flag, and all of them are alive throughout; what the steps
\* replace is the chain, its images, the image views, the framebuffers, the
\* stored format and the stored extent.
C10_RecreateFrame ==
    /\ [](InRecreate => \A h \in DOMAIN handles : handles[h].live)
    /\ [][ InRecreate /\ pc' # pc =>
             /\ handles' = handles
             /\ m_commandBuffers' = m_commandBuffers
             /\ m_imageAvailableSemaphores' = m_imageAvailableSemaphores
             /\ m_renderFinishedSemaphores' = m_renderFinishedSemaphores
             /\ m_inFlightFences' = m_inFlightFences
             /\ m_currentFrame' = m_currentFrame
             /\ m_framebufferResized' = m_framebufferResized
             /\ m_initialized' = m_initialized
         ]_vars

\* C10 witness: a whole recreation has run in a call on slot 1, and the new
\* chain has another number of images than there are frame slots.
C10_Witness ==
    /\ pc = "advance"
    /\ rcReturn = "advance"
    /\ Called("createFramebuffers")
    /\ m_currentFrame = 1
    /\ m_swapChainFramebuffers.live
    /\ m_swapChainFramebuffers.n # NumSlots

\* The destroy calls of cleanup() and recreateSwapChain().
C11_DestroyCalls ==
    { "vkDestroyFramebuffer", "vkDestroyImageView", "vkDestroySwapchainKHR",
      "vkDestroyPipeline", "vkDestroyPipelineLayout", "vkDestroyRenderPass",
      "vkDestroySemaphore/vkDestroyFence", "vkDestroyCommandPool", "vkDestroyDevice",
      "DestroyDebugUtilsMessengerEXT", "vkDestroySurfaceKHR", "vkDestroyInstance" }

\* C11: whenever cleanup() or recreateSwapChain() is about to destroy an
\* object, the same call has made a device idle-wait, nothing was submitted or
\* presented after that wait, and no work is pending on any queue.
C11_DestroyAfterIdle ==
    pc \in C11_DestroyCalls =>
        /\ graphicsQueue = {}
        /\ presentQueue = << >>
        /\ \E i \in 1..Len(trace) :
             /\ trace[i] = "vkDeviceWaitIdle"
             /\ \A j \in 1..Len(trace) :
                  trace[j] \in { "vkQueueSubmit", "vkQueuePresentKHR" } => j < i
             /\ \A j \in 1..Len(trace) :
                  trace[j] \in C11_DestroyCalls => i < j

\* C11 witness: after a frame was drawn, cleanup() has destroyed the chain and
\* the sync objects and is about to destroy the device.
C11_Witness ==
    /\ pc = "vkDestroyDevice"
    /\ m_currentFrame = 1
    /\ Called("vkDestroySwapchainKHR")
    /\ Called("vkDestroySemaphore/vkDestroyFence")

----------------------------------------------------------------------------
\* C12: cleanup() destroys the renderer's objects in exactly the reverse of
\* the order in which initVulkan() created them: while cleanup() runs, an
\* object is gone only if every object a later stage created is gone too, and
\* the swap chain and the pipeline are gone only if the frame slots' fences
\* and semaphores are.
C12_StageOf(member) == CHOOSE i \in 1..Len(initVulkan) : member \in Creates(initVulkan[i])

C12_ReverseOfCreation ==
    rcReturn = "cleanup" =>
        /\ \A a, b \in Objects :
               C12_StageOf(a) < C12_StageOf(b) /\ ~Alive(a) => ~Alive(b)
        /\ ~Alive("m_swapChain") \/ ~Alive("m_graphicsPipeline") =>
               \A s \in Creates("createSyncObjects") : ~Alive(s)

----------------------------------------------------------------------------
\* C13: in cleanup() the instance is destroyed last, after the surface, the
\* debug messenger and the device; the device is destroyed only after the
\* framebuffers, image views, swap chain, pipeline, pipeline layout, render
\* pass, semaphores, fences and command pool; and no object is destroyed
\* before an object created from it.
C13_FromDevice ==
    { "m_swapChainFramebuffers", "m_swapChainImageViews", "m_swapChain",
      "m_graphicsPipeline", "m_pipelineLayout", "m_renderPass",
      "m_imageAvailableSemaphores", "m_renderFinishedSemaphores", "m_inFlightFences",
      "m_commandPool" }

C13_ParentsOutliveChildren ==
    rcReturn = "cleanup" =>
        /\ ~Alive("m_instance") => \A o \in Objects : ~Alive(o)
        /\ ~Alive("m_device") => \A o \in C13_FromDevice : ~Alive(o)
        /\ \A o \in Objects : \A p \in CreatedFrom(o) : Alive(o) => Alive(p)

\* cleanup() has destroyed the device and everything created from it and is
\* about to destroy the instance, which is the only object left.
C13_Witness ==
    /\ pc = "vkDestroyInstance"
    /\ rcReturn = "cleanup"
    /\ Alive("m_instance")
    /\ \A o \in Objects \ { "m_instance" } : ~Alive(o)

----------------------------------------------------------------------------
\* C14: initialization runs its stages exactly once in the fixed order
\* instance, debug messenger, surface, physical device, logical device, swap
\* chain, image views, render pass, graphics pipeline, framebuffers, command
\* pool, command buffers, sync objects: a stage starts when exactly the stages
\* before it have run, and everything it consumes exists; after a stage has
\* thrown no later stage has run or created anything; and the initialized flag
\* is true only past the last stage, all thirteen having run.
C14_Order ==
    << "createInstance", "setupDebugMessenger", "createSurface", "pickPhysicalDevice",
       "createLogicalDevice", "createSwapChain", "createImageViews", "createRenderPass",
       "createGraphicsPipeline", "createFramebuffers", "createCommandPool",
       "createCommandBuffers", "createSyncObjects" >>

C14_RanFirst(n) == Len(trace) = n /\ \A i \in 1..n : trace[i] = C14_Order[i]

C14_InitFailed == ~m_renderer /\ pc \in { "catch", "initFailed", "exited" }

C14_StagesInOrder ==
    /\ \A i \in 1..Len(C14_Order) :
           pc = C14_Order[i] /\ rcReturn = "initVulkan" =>
               /\ C14_RanFirst(i - 1)
               /\ \A m \in Consumes(C14_Order[i]) : Alive(m)
               /\ ~m_initialized
    /\ pc \in { "m_initialized = true", "initTime" } =>
           /\ C14_RanFirst(Len(C14_Order))
           /\ \A o \in Objects : Alive(o)
    /\ pc = "m_initialized = true" => ~m_initialized
    /\ C14_InitFailed =>
           /\ \E n \in 0..Len(C14_Order) : C14_RanFirst(n)
           /\ \A j \in (Len(trace) + 1)..Len(C14_Order) :
                  \A o \in Creates(C14_Order[j]) : ~Alive(o)
           /\ ~m_initialized
    /\ m_initialized => m_renderer /\ pc \notin { "main", "catch" }

\* All thirteen stages have run, in order, and the flag has just been set.
C14_Witness ==
    /\ pc = "initTime"
    /\ m_initialized
    /\ trace = C14_Order

----------------------------------------------------------------------------
\* C15: cleanup() is safe in every renderer state: whenever it is called, its
\* first backend call, vkDeviceWaitIdle(m_device), is made through a renderer
\* that exists and on a device that exists, and over all calls of cleanup()
\* no destroy call is made twice.
C15_CleanupIsSafe ==
    /\ pc = "close" => m_renderer /\ Alive("m_device")
    /\ \A c \in C11_DestroyCalls :
           Cardinality({ i \in 1..Len(trace) : trace[i] = c }) <= 1

----------------------------------------------------------------------------
\* C16: if renderer initialization fails at any stage, the host's renderer
\* reference stays empty, init() reports failure and run() returns: from the
\* catch on the process only goes to the failed init and to the end of main,
\* and while the reference is empty the host is not running and is at no
\* position of the frame loop, of render() or of cleanup().
C16_BeforeRenderer ==
    { C14_Order[i] : i \in 1..Len(C14_Order) } \cup
    { "main", "m_initialized = true", "catch", "initFailed", "exited" }

C16_FailedInitIsUnreachable ==
    [][ /\ pc = "catch" => ~m_renderer /\ pc' \in { "catch", "initFailed" }
        /\ pc = "initFailed" /\ ~m_renderer => pc' \in { "initFailed", "exited" }
        /\ pc \in { "catch", "initFailed", "exited" } => m_renderer' = m_renderer
        /\ ~m_renderer' => ~m_isRunning' /\ pc' \in C16_BeforeRenderer
      ]_vars

\* A stage threw after earlier stages had created their objects, and the
\* process has ended without a renderer.
C16_Witness ==
    /\ pc = "exited"
    /\ ~m_renderer
    /\ Alive("m_device")
    /\ ~m_initialized

----------------------------------------------------------------------------
\* C17: the process exit code is 0 exactly when the run ends in a clean
\* shutdown (initialization succeeded, the loop ended, cleanup() destroyed
\* everything); every other run ends with a non-zero exit code.
C17_CleanShutdown ==
    /\ m_renderer
    /\ ~m_isRunning
    /\ ~m_initialized
    /\ \A o \in Objects : ~Alive(o)

C17_ExitCodeTellsCleanShutdown ==
    Exited => (exitCode = 0 <=> C17_CleanShutdown)

----------------------------------------------------------------------------
\* C18: pickPhysicalDevice() throws when no device is enumerated or none is
\* suitable; otherwise it selects the device with the smallest enumeration
\* index for which isDeviceSuitable holds.
C18_PicksFirstSuitable ==
    helper.fn = "pickPhysicalDevice" /\ helper.done =>
        LET devices == helper.arg
            suitable == { k \in 1..Len(devices) : isDeviceSuitable(devices[k]) }
        IN  /\ Len(devices) = 0 \/ suitable = {} =>
                /\ helper.ret.threw
                /\ helper.ret.m_physicalDevice = VK_NULL_HANDLE
            /\ suitable # {} =>
                /\ ~helper.ret.threw
                /\ helper.ret.m_physicalDevice \in suitable
                /\ \A j \in suitable : helper.ret.m_physicalDevice <= j

\* Three devices, the first unsuitable, the other two suitable: the second
\* is selected.
C18_Witness ==
    /\ helper.fn = "pickPhysicalDevice"
    /\ helper.done
    /\ Len(helper.arg) = 3
    /\ ~isDeviceSuitable(helper.arg[1])
    /\ isDeviceSuitable(helper.arg[2])
    /\ isDeviceSuitable(helper.arg[3])
    /\ helper.ret.m_physicalDevice = 2

----------------------------------------------------------------------------
\* C19: isDeviceSuitable(device) is true if and only if the device has a
\* queue family with the graphics bit, a queue family that can present to the
\* surface, every required extension, at least one surface format and at
\* least one present mode; so it is false when any one of the five is missing.
C19_SuitableIffAllFive ==
    helper.fn = "isDeviceSuitable" /\ helper.done =>
        LET device == helper.arg
            families == 1..Len(device.queueFamilies)
            graphics == \E i \in families : device.queueFamilies[i].graphics
            present == \E i \in families : device.queueFamilies[i].present
            extensions == VK_KHR_SWAPCHAIN_EXTENSION_NAME \in device.extensions
            formats == Len(device.formats) >= 1
            presentModes == Len(device.presentModes) >= 1
        IN  helper.ret <=> graphics /\ present /\ extensions /\ formats /\ presentModes

\* A device that has graphics and present support on different queue
\* families, the extension and a format, but no present mode: not suitable.
C19_Witness ==
    /\ helper.fn = "isDeviceSuitable"
    /\ helper.done
    /\ helper.arg.queueFamilies = << [graphics |-> TRUE, present |-> FALSE],
                                     [graphics |-> FALSE, present |-> TRUE] >>
    /\ VK_KHR_SWAPCHAIN_EXTENSION_NAME \in helper.arg.extensions
    /\ helper.arg.formats # << >>
    /\ helper.arg.presentModes = << >>
    /\ ~helper.ret

----------------------------------------------------------------------------
\* C20: for every non-empty sequence of (format, color space) pairs,
\* chooseSwapSurfaceFormat returns the (B8G8R8A8_SRGB, SRGB_NONLINEAR) pair
\* when the sequence contains it anywhere, and the first element otherwise.
C20_Preferred ==
    [format |-> VK_FORMAT_B8G8R8A8_SRGB, colorSpace |-> VK_COLOR_SPACE_SRGB_NONLINEAR_KHR]

C20_PreferredElseFirst ==
    helper.fn = "chooseSwapSurfaceFormat" /\ helper.done =>
        IF \E i \in 1..Len(helper.arg) : helper.arg[i] = C20_Preferred
        THEN helper.ret = C20_Preferred
        ELSE helper.ret = helper.arg[1]

\* The preferred pair stands last, behind a pair with the preferred format in
\* another color space, and is returned.
C20_Witness ==
    /\ helper.fn = "chooseSwapSurfaceFormat"
    /\ helper.done
    /\ Len(helper.arg) = 3
    /\ helper.arg[1] = [format |-> VK_FORMAT_B8G8R8A8_SRGB,
                        colorSpace |-> VK_COLOR_SPACE_DISPLAY_P3_NONLINEAR_EXT]
    /\ helper.arg[3] = C20_Preferred
    /\ helper.ret = C20_Preferred

----------------------------------------------------------------------------
\* C21: for every sequence of present modes, the empty one and those without
\* FIFO included, chooseSwapPresentMode returns mailbox when the sequence
\* contains mailbox and FIFO otherwise.
C21_MailboxElseFifo ==
    helper.fn = "chooseSwapPresentMode" /\ helper.done =>
        IF \E i \in 1..Len(helper.arg) : helper.arg[i] = VK_PRESENT_MODE_MAILBOX_KHR
        THEN helper.ret = VK_PRESENT_MODE_MAILBOX_KHR
        ELSE helper.ret = VK_PRESENT_MODE_FIFO_KHR

\* Only the immediate mode is reported, neither mailbox nor FIFO: FIFO is
\* returned.
C21_Witness ==
    /\ helper.fn = "chooseSwapPresentMode"
    /\ helper.done
    /\ helper.arg = << VK_PRESENT_MODE_IMMEDIATE_KHR >>
    /\ helper.ret = VK_PRESENT_MODE_FIFO_KHR

----------------------------------------------------------------------------
\* C22: chooseSwapExtent returns the surface's current extent exactly,
\* whatever the window size, when that extent is not the sentinel; when it is
\* the sentinel, it returns the window's pixel size with width and height
\* each brought into [minImageExtent, maxImageExtent]: the window's value when
\* it lies inside, else the limit it crosses.
C22_Undefined == << UINT32_MAX, UINT32_MAX >>

C22_CurrentElseClampedWindow ==
    helper.fn = "chooseSwapExtent" /\ helper.done =>
        LET caps == helper.arg.capabilities
            window == helper.arg.windowPixels
        IN  IF caps.currentExtent # C22_Undefined
            THEN helper.ret = caps.currentExtent
            ELSE \A k \in 1..2 :
                   /\ window[k] < caps.minImageExtent[k] =>
                          helper.ret[k] = caps.minImageExtent[k]
                   /\ window[k] > caps.maxImageExtent[k] =>
                          helper.ret[k] = caps.maxImageExtent[k]
                   /\ /\ caps.minImageExtent[k] <= window[k]
                      /\ window[k] <= caps.maxImageExtent[k]
                      => helper.ret[k] = window[k]

\* The current extent is the sentinel and the window (50, 50) lies below the
\* minimum (100, 100): the minimum is returned.
C22_Witness ==
    /\ helper.fn = "chooseSwapExtent"
    /\ helper.done
    /\ helper.arg.capabilities.currentExtent = C22_Undefined
    /\ helper.arg.capabilities.minImageExtent = << 100, 100 >>
    /\ helper.arg.windowPixels = << 50, 50 >>
    /\ helper.ret = << 100, 100 >>

----------------------------------------------------------------------------
\* C23: the image count requested by createSwapChain is minImageCount + 1
\* when maxImageCount is 0 or minImageCount + 1 <= maxImageCount, and
\* maxImageCount otherwise; whenever minImageCount <= maxImageCount or
\* maxImageCount = 0, it is at least minImageCount and, with a limit, at most
\* maxImageCount.
C23_ImageCountInRange ==
    helper.fn = "swapChainImageCount" /\ helper.done =>
        LET min == helper.arg.minImageCount
            max == helper.arg.maxImageCount
        IN  /\ IF max = 0 \/ min < max
               THEN helper.ret - 1 = min
               ELSE helper.ret = max
            /\ min <= max \/ max = 0 =>
                   /\ min <= helper.ret
                   /\ max = 0 \/ helper.ret <= max

\* The same statement for counts below the largest uint32_t value.
C23_SmallCountsInRange ==
    helper.fn = "swapChainImageCount" /\ helper.done
    /\ helper.arg.minImageCount < UINT32_MAX => C23_ImageCountInRange

\* C24: for every extent with positive sides the recorded viewport is the
\* largest rectangle of ratio 4:3 that fits the extent, centred in it: a
\* wider extent keeps its height and gets width h*4/3, any other keeps its
\* width and gets height w*3/4, the margins left and right are equal and so
\* are those above and below; 800x600 is filled, 1000x600 gets width 800 at
\* x = 100, 800x1000 gets height 600 at y = 200; the scissor is the extent.
C24_Pixels(n) == n * PerPixel

C24_LargestCentredFourByThree ==
    helper.fn = "recordCommandBuffer" /\ helper.done =>
        LET w == C24_Pixels(helper.arg[1])
            h == C24_Pixels(helper.arg[2])
            v == helper.ret.viewport
        IN  /\ 3 * v.width = 4 * v.height
            /\ v.width <= w /\ v.height <= h
            /\ v.width = w \/ v.height = h
            /\ IF 3 * w > 4 * h
               THEN v.height = h /\ 3 * v.width = 4 * h
               ELSE v.width = w /\ 4 * v.height = 3 * w
            /\ v.x + v.width + v.x = w
            /\ v.y + v.height + v.y = h
            /\ helper.arg = << 800, 600 >> =>
                   v = [x |-> 0, y |-> 0, width |-> w, height |-> h]
            /\ helper.arg = << 1000, 600 >> =>
                   v = [x |-> C24_Pixels(100), y |-> 0,
                        width |-> C24_Pixels(800), height |-> h]
            /\ helper.arg = << 800, 1000 >> =>
                   v = [x |-> 0, y |-> C24_Pixels(200),
                        width |-> w, height |-> C24_Pixels(600)]
            /\ helper.ret.scissor = [offset |-> << 0, 0 >>, extent |-> helper.arg]

C24_Witness ==
    /\ helper.fn = "recordCommandBuffer" /\ helper.done
    /\ helper.arg = << 1000, 600 >>
    /\ helper.ret.viewport.x = C24_Pixels(100)
    /\ helper.ret.viewport.width = C24_Pixels(800)

\* C25: after initialization and after every completed recreateSwapChain()
\* there are as many framebuffers as image views as images of the current
\* chain, and the framebuffers are built on the image views of the current
\* chain (which are views of its images) with the current chain extent.
C25_Settled ==
    /\ m_initialized
    /\ \/ rcReturn = "none"
       \/ rcReturn \in { "return", "advance" } /\ pc \in { "advance", "return" }

C25_FramebufferPerImage ==
    C25_Settled =>
        /\ m_swapChain.live /\ m_swapChainImages.valid
        /\ DOMAIN image = 0..(m_swapChainImages.n - 1)
        /\ m_swapChainImageViews.n = m_swapChainImages.n
        /\ m_swapChainImageViews.live /\ m_swapChainImageViews.onImages
        /\ m_swapChainFramebuffers.n = m_swapChainImageViews.n
        /\ m_swapChainFramebuffers.live /\ m_swapChainFramebuffers.onViews
        /\ m_swapChainFramebuffers.extent = m_swapChainExtent

\* C25 witness: a recreateSwapChain() has completed with a chain whose image
\* count differs from the number of frame slots made at initialization.
C25_Witness ==
    /\ m_initialized /\ rcReturn = "advance" /\ pc = "advance"
    /\ m_swapChainFramebuffers.n # NumSlots
    /\ m_swapChainFramebuffers.live

\* C26: the number of frame slots is fixed at creation.  When initialization
\* ends, the command buffers, the image-available semaphores, the
\* render-finished semaphores and the fences are each as many as the chain
\* has images at that time, and every fence is signaled; from then on no step
\* of render(), of recreateSwapChain() or of anything else changes these
\* counts.
C26_Counts ==
    << DOMAIN m_commandBuffers, DOMAIN m_imageAvailableSemaphores,
       DOMAIN m_renderFinishedSemaphores, DOMAIN m_inFlightFences >>

C26_SlotCountFixed ==
    [][ /\ ~m_initialized /\ m_initialized' =>
             /\ \A i \in 1..4 : C26_Counts'[i] = 0..(m_swapChainImages'.n - 1)
             /\ m_swapChainImages'.n > 0
             /\ \A s \in DOMAIN m_inFlightFences' : m_inFlightFences'[s]
        /\ m_initialized => C26_Counts' = C26_Counts ]_vars

\* C26 witness: a later render() call starts on slot 1 after a
\* recreateSwapChain() left the chain with fewer images than there are slots.
C26_Witness ==
    /\ m_initialized /\ pc = "vkWaitForFences" /\ m_currentFrame = 1
    /\ m_swapChainImages.n < NumSlots
    /\ \A i \in 1..4 : C26_Counts[i] = FrameSlots

\* C27 as stated: on every iteration of the host loop, once the events have
\* been handled, render() is called.
C27_RenderEveryIteration ==
    [][ pc = "poll" /\ pc' # pc => pc' = "vkWaitForFences" ]_vars

\* C27 amended: render() is entered only from the loop body of
\* GameApp::run, once the events of the iteration have been handled, and
\* exactly on the iterations that find the window not minimized; an
\* iteration that finds it minimized goes back to the loop test without
\* calling render().
C27_RenderUnlessMinimized ==
    [][ /\ pc' = "vkWaitForFences" /\ pc' # pc => pc = "poll" /\ ~m_isMinimized
        /\ pc = "poll" /\ pc' # pc =>
              IF m_isMinimized THEN pc' = "close" /\ ~m_isRunning
              ELSE pc' = "vkWaitForFences" ]_vars

\* C27 witness: the loop has rendered a frame and then ended on an iteration
\* that found the window minimized and did not call render().
C27_Witness ==
    /\ pc = "close" /\ m_isMinimized /\ ~m_isRunning
    /\ framesCompleted = 1

\* C28: for every sequence of queue families findQueueFamilies returns as
\* graphics index the smallest index of a family with the graphics bit and as
\* present index the smallest index of a family that can present, and leaves
\* an index empty when no family has the capability.
C28_Smallest(families, capability) ==
    LET having == { i \in 0..(Len(families) - 1) : families[i + 1][capability] }
    IN  IF having = {} THEN nullopt
        ELSE << CHOOSE i \in having : \A j \in having : i <= j >>

C28_SmallestIndices ==
    helper.fn = "findQueueFamilies" /\ helper.done =>
        /\ helper.ret.graphicsFamily = C28_Smallest(helper.arg.queueFamilies, "graphics")
        /\ helper.ret.presentFamily = C28_Smallest(helper.arg.queueFamilies, "present")

\* What holds of findQueueFamilies: an index is empty exactly when no family
\* has the capability, a returned index names a family that has it, and no
\* family after the first one at which both indices are set is looked at.
C28_CapableIndices ==
    helper.fn = "findQueueFamilies" /\ helper.done =>
        LET families == helper.arg.queueFamilies
            g == helper.ret.graphicsFamily
            p == helper.ret.presentFamily
            first == C28_Smallest(families, "graphics")
            firstP == C28_Smallest(families, "present")
        IN  /\ has_value(g) <=> has_value(first)
            /\ has_value(p) <=> has_value(firstP)
            /\ has_value(g) => families[g[1] + 1].graphics
            /\ has_value(p) => families[p[1] + 1].present
            /\ has_value(g) /\ has_value(p) =>
                   LET stop == IF first[1] > firstP[1] THEN first[1] ELSE firstP[1]
                   IN  g[1] <= stop /\ p[1] <= stop

\* C29: in every render() call whose acquire does not report out-of-date the
\* calls drawFrame makes are, in this order: wait on the slot's fence,
\* acquire with the slot's image-available semaphore, reset the fence, reset
\* and re-record the slot's command buffer, submit, present, advance; a call
\* that stops early (by an exception) has made a beginning of this sequence
\* and a call that returns has made all of it.  Until the acquire has
\* succeeded the slot's fence is still signaled, and at the submit it has been
\* reset.
C29_Steps ==
    << "vkWaitForFences", "vkAcquireNextImageKHR", "vkResetFences",
       "vkResetCommandBuffer", "recordCommandBuffer", "vkQueueSubmit",
       "vkQueuePresentKHR", "advance" >>

C29_Made == SelectSeq(trace, LAMBDA c : c \notin RecreateSteps)

C29_MadeAt(position) ==
    CASE position = "vkWaitForFences" -> 0
      [] position = "vkAcquireNextImageKHR" -> 1
      [] position = "vkResetFences" -> 2
      [] position = "vkQueueSubmit" -> 5
      [] position = "vkQueuePresentKHR" -> 6
      [] position \in RecreateSteps \cup { "advance" } -> 7
      [] position = "return" -> 8

C29_StepsInOrder ==
    /\ rcReturn \in { "none", "advance" }
    /\ pc \in { "vkWaitForFences", "vkAcquireNextImageKHR", "vkResetFences",
                "vkQueueSubmit", "vkQueuePresentKHR", "advance", "return", "fatal" }
             \cup RecreateSteps
    =>
    /\ Len(C29_Made) <= Len(C29_Steps)
    /\ \A i \in 1..Len(C29_Made) : C29_Made[i] = C29_Steps[i]
    /\ pc # "fatal" => Len(C29_Made) = C29_MadeAt(pc)
    /\ pc \in { "vkAcquireNextImageKHR", "vkResetFences" } =>
           m_inFlightFences[m_currentFrame]
    /\ pc = "vkResetFences" =>
           /\ result \in { VK_SUCCESS, VK_SUBOPTIMAL_KHR }
           /\ imageIndex \in DOMAIN image
           /\ image[imageIndex].st = "acquired"
           /\ \/ image[imageIndex].sem = m_currentFrame
              \/ m_imageAvailableSemaphores[m_currentFrame]
    /\ pc = "vkQueueSubmit" => ~m_inFlightFences[m_currentFrame]

\* C29 witness: a render() call has made all the steps, with a
\* recreateSwapChain() between present and advance, and is about to return.
C29_Witness ==
    /\ pc = "return" /\ rcReturn = "advance"
    /\ C29_Made = C29_Steps
    /\ Len(trace) = Len(C29_Steps) + Len(recreateSwapChain)

\* C30: every resize notification is eventually honoured.  The resize flag
\* is cleared only by the step of drawFrame after present that goes into
\* recreateSwapChain(); a call that reaches present with the flag set takes
\* that step; a call that got past the acquire and returns has the flag false
\* and, if it cleared the flag, has made every call of recreateSwapChain();
\* and if calls keep getting past the acquire, a flag that is set is
\* eventually cleared.
C30_ClearedByRecreate ==
    [][ /\ m_framebufferResized /\ ~m_framebufferResized' =>
             pc = "vkQueuePresentKHR" /\ pc' = "vkDeviceWaitIdle" /\ rcReturn' = "advance"
        /\ pc = "vkQueuePresentKHR" /\ pc' # pc /\ m_framebufferResized =>
             ~m_framebufferResized' /\ pc' = "vkDeviceWaitIdle" /\ rcReturn' = "advance"
        /\ pc # "poll" => m_framebufferResized' = m_framebufferResized \/ pc = "vkQueuePresentKHR"
      ]_vars

C30_FalseAtReturn ==
    pc = "return" /\ rcReturn # "return" =>
        /\ ~m_framebufferResized
        /\ rcReturn = "advance" =>
               \A i \in 1..Len(recreateSwapChain) : Called(recreateSwapChain[i])

C30_ResizeHonoured ==
    /\ C30_ClearedByRecreate
    /\ [](C30_FalseAtReturn)
    /\ []<>(pc = "vkResetFences") => (m_framebufferResized ~> ~m_framebufferResized)

\* C30 witness: a call that found the flag set and whose present succeeded
\* has recreated the chain and is about to return with the flag false.
C30_Witness ==
    /\ pc = "return" /\ rcReturn = "advance" /\ result = VK_SUCCESS
    /\ ~m_framebufferResized
    /\ Called("createFramebuffers")

\* C31: createLogicalDevice requests exactly one queue for every distinct
\* family among the graphics and the present family: one entry when the two
\* are the same family, two entries of different families when they differ,
\* never two entries of one family; and the chain's images are shared
\* concurrently exactly when the two families differ.
C31_OneQueuePerFamily ==
    helper.fn = "createLogicalDevice" /\ helper.done =>
        LET g == helper.ret.indices.graphicsFamily[1]
            p == helper.ret.indices.presentFamily[1]
            infos == helper.ret.queueCreateInfos
        IN  /\ Len(infos) = IF g = p THEN 1 ELSE 2
            /\ { infos[k].queueFamilyIndex : k \in 1..Len(infos) } = { g, p }
            /\ \A k \in 1..Len(infos) : infos[k].queueCount = 1
            /\ \A j, k \in 1..Len(infos) :
                   j # k => infos[j].queueFamilyIndex # infos[k].queueFamilyIndex
            /\ helper.ret.imageSharingMode = VK_SHARING_MODE_CONCURRENT <=> g # p
            /\ helper.ret.imageSharingMode = VK_SHARING_MODE_EXCLUSIVE <=> g = p

\* C31 witness: the graphics family cannot present, so two queues of two
\* families are requested and the images are shared.
C31_Witness ==
    /\ helper.fn = "createLogicalDevice" /\ helper.done
    /\ helper.ret.indices.graphicsFamily # helper.ret.indices.presentFamily
    /\ Len(helper.ret.queueCreateInfos) = 2
    /\ helper.ret.imageSharingMode = VK_SHARING_MODE_CONCURRENT

\* C32: on a clean run (initialization succeeds, the loop ends on a quit
\* event) cleanup() is called exactly once and only on a renderer that was
\* fully initialized; ~GameApp does not call it again; close() is never
\* reached with an empty m_renderer.
C32_CleanupCalls == Cardinality({ i \in 1..Len(trace) : trace[i] = "vkDeviceWaitIdle" })

C32_CleanExit == pc = "exited" /\ m_renderer /\ ~Called(initVulkan[1])

C32_CleanupExactlyOnce ==
    /\ pc = "close" => m_renderer /\ m_initialized /\ ~m_isRunning /\ C32_CleanupCalls = 0
    /\ rcReturn = "cleanup" => m_renderer /\ C32_CleanupCalls = 1
    /\ rcReturn = "cleanup" /\ pc \in { cleanup[i] : i \in 2..Len(cleanup) } => m_initialized
    /\ pc = "closed" => ~m_isRunning /\ C32_CleanupCalls = 1
    /\ C32_CleanExit => ~m_initialized /\ C32_CleanupCalls = 1

\* C32 witness: the process has left main after a run that rendered, handled
\* a quit event and cleaned up once.
C32_Witness ==
    /\ C32_CleanExit
    /\ C32_CleanupCalls = 1
    /\ Called("vkDestroyInstance")

\* C33: after a quit event has been handled the host loop makes at most one
\* more render() call, the one of the iteration that handled the event, and
\* then calls close(); no render() call happens after cleanup() has started.
\* Step by step: m_isRunning, once false, stays false; the loop body is
\* entered again only while m_isRunning is true; with m_isRunning false the
\* iteration either calls render() or not and the return from it leads to
\* close(); render() is entered only from the loop body; and from close()
\* on the thread never comes back to the loop.
C33_Closing ==
    \/ pc \in { "close", "SDL_DestroyWindow", "closed", "m_initialized = false" }
    \/ rcReturn = "cleanup"

C33_QuitEndsLoop ==
    [][ /\ ~m_isRunning => ~m_isRunning'
        /\ pc' = "poll" /\ pc # "poll" => pc = "return" /\ m_isRunning
        /\ pc = "poll" /\ pc' # pc /\ ~m_isRunning => pc' \in { "vkWaitForFences", "close" }
        /\ pc = "return" /\ pc' # pc /\ ~m_isRunning => pc' = "close"
        /\ pc' = "vkWaitForFences" /\ pc' # pc => pc = "poll" /\ ~C33_Closing
        /\ C33_Closing => C33_Closing' \/ pc' = "crashed"
      ]_vars

\* C33 witness: the render() call of the iteration that handled the quit
\* event has completed a frame and is about to return.
C33_Witness ==
    /\ pc = "return" /\ rcReturn = "none" /\ ~m_isRunning
    /\ Called("vkQueuePresentKHR")

\* C34: render() is not called in a loop iteration whose event handling ends
\* with the window minimized: while m_isMinimized is set the host thread is
\* in no render() call, so it acquires, submits and presents nothing; quit and
\* resize events are still taken in that time and have their effect.
C34_NoFrameWhileMinimized ==
    /\ m_isMinimized =>
          /\ pc \in { "poll", "crashed" } \/ C33_Closing
          /\ trace = << >> \/ C33_Closing
    /\ m_isMinimized /\ pc = "poll" =>
          /\ ENABLED (handleEvents(SDL_EVENT_QUIT) /\ ~m_isRunning')
          /\ ENABLED (handleEvents(SDL_EVENT_WINDOW_RESIZED) /\ m_framebufferResized')
          /\ ENABLED (handleEvents(SDL_EVENT_WINDOW_RESTORED) /\ ~m_isMinimized')

\* C34 witness: the window was minimized after a frame, and a resize and the
\* quit event have been taken since; the loop has ended without another
\* render() call.
C34_Witness ==
    /\ m_isMinimized /\ pc = "close" /\ ~m_isRunning /\ m_framebufferResized
    /\ framesCompleted = 1

\* C35: every index render() uses is in range in every reachable state, also
\* after a recreation gave a chain with another image count: m_currentFrame
\* is below the number of command buffers, of semaphores of both kinds and of
\* fences, and from the acquire to the present the acquired image index is
\* below the number of images and of (live) framebuffers of the current chain.
C35_IndicesInRange ==
    /\ m_initialized =>
          /\ m_currentFrame \in DOMAIN m_commandBuffers
          /\ m_currentFrame \in DOMAIN m_inFlightFences
          /\ m_currentFrame \in DOMAIN m_imageAvailableSemaphores
          /\ m_currentFrame \in DOMAIN m_renderFinishedSemaphores
    /\ pc \in { "vkResetFences", "vkQueueSubmit", "vkQueuePresentKHR" } =>
          /\ imageIndex \in 0..(m_swapChainFramebuffers.n - 1)
          /\ imageIndex \in 0..(m_swapChainImages.n - 1)
          /\ m_swapChainFramebuffers.live /\ m_swapChainFramebuffers.onViews
    /\ \A w \in graphicsQueue :
          w.cb \in DOMAIN m_commandBuffers /\ w.fb \in 0..(m_swapChainFramebuffers.n - 1)

\* C35 witness: after a recreation the chain has more images than there are
\* frame slots, and a render() call has acquired an image whose index is not
\* a slot index.
C35_Witness ==
    /\ pc = "vkResetFences"
    /\ imageIndex >= NumSlots
    /\ m_swapChainFramebuffers.n > NumSlots

C36_FenceWillSignal ==
    pc = "vkWaitForFences" =>
        \/ m_inFlightFences[m_currentFrame]
        \/ \E w \in graphicsQueue : w.fence = m_currentFrame

\* C37: a render-finished semaphore is never signaled again while still in
\* use: whenever render() is about to issue the submission that signals the
\* render-finished semaphore of the current slot, no earlier present request
\* that waits on that semaphore is still in the present queue.
C37_SemaphoreFreeAtSubmit ==
    pc = "vkQueueSubmit" =>
        \A i \in 1..Len(presentQueue) : presentQueue[i].wait # m_currentFrame

\* What holds of the render-finished semaphores: while the chain has no more
\* images than there are frame slots, the present of the slot's earlier frame
\* has taken its signal before the slot submits again.
C37_FreeWhileChainFitsSlots ==
    pc = "vkQueueSubmit" /\ m_swapChainImages.n <= NumSlots =>
        \A i \in 1..Len(presentQueue) : presentQueue[i].wait # m_currentFrame

\* C38: a recreation triggered by an out-of-date acquire does not consume a
\* pending resize notification. From the step that aborts at acquisition until
\* that call has returned, m_framebufferResized keeps its value; the flag is
\* cleared by nothing but the presentation branch of drawFrame; and a call that
\* reaches vkQueuePresentKHR with the flag set recreates the chain (again).
C38_AbortKeepsResize ==
    [][ /\ (pc = "vkAcquireNextImageKHR" /\ rcReturn' = "return") \/ rcReturn = "return"
            => m_framebufferResized' = m_framebufferResized
        /\ m_framebufferResized /\ ~m_framebufferResized'
            => pc = "vkQueuePresentKHR" /\ pc' = recreateSwapChain[1] /\ rcReturn' = "advance"
        /\ pc = "vkQueuePresentKHR" /\ m_framebufferResized /\ pc' # pc
            => pc' = recreateSwapChain[1] /\ rcReturn' = "advance" /\ ~m_framebufferResized'
      ]_vars

\* A render() call that aborted at acquisition has recreated the chain and is
\* about to return with the resize notification still pending.
C38_Witness ==
    /\ pc = "return"
    /\ rcReturn = "return"
    /\ result = VK_ERROR_OUT_OF_DATE_KHR
    /\ m_framebufferResized

\* C39: every renderer whose initialization completed is cleaned up before
\* run() returns: when main has returned and a renderer was built, cleanup()
\* has run to its end and no backend object is left alive (the physical
\* device is enumerated, not created, and has no destroy call).
C39_CleanedUpBeforeReturn ==
    pc = "exited" /\ m_renderer =>
        /\ ~m_initialized
        /\ \A h \in DOMAIN handles \ { "m_physicalDevice" } : ~handles[h].live

\* The same on the paths where init() succeeded as a whole: a run whose
\* loop was entered (m_isRunning was set, so run() went through close())
\* ends with the renderer cleaned up.
C39_CleanedUpAfterLoop ==
    pc = "exited" /\ m_renderer /\ rcReturn = "cleanup" =>
        /\ ~m_initialized
        /\ \A h \in DOMAIN handles \ { "m_physicalDevice" } : ~handles[h].live

====
